---- MODULE Spec2Model ----
(***************************************************************************)
(* Model of github.com/flamego/cache: the in-memory store (memoryStore, a  *)
(* container/heap of *memoryItem ordered by expiredAt plus a key index)    *)
(* and the GC scheduler (manager.startGC); the store's calls under its     *)
(* sync.RWMutex; parseOptions of the Cacher; the file store (fileStore).   *)
(***************************************************************************)
EXTENDS Integers, Sequences, FiniteSets, TLC

(* ------------------------------ bounds -------------------------------- *)
MaxLen == 3          \* Set is not taken once the heap holds MaxLen slots
MaxClock == 2        \* the injected clock runs over 0..MaxClock
MaxLife == 2         \* lifetimes handed to Set are 1..MaxLife
MaxPending == 1      \* pending cleanup goroutines per key
MaxGC == 4           \* the ticker fires while fewer than MaxGC GC calls are due
MaxCallers == 2      \* goroutines calling the store at the same time
MaxConcLen == 2      \* concurrent Set calls are not started beyond this heap size
MaxSpawned == 2      \* cleanup goroutines per key waiting for the lock
MaxLiveLen == 1      \* the same as MaxConcLen, under FairConcSpec
MaxHeap == 5         \* HeapSet is not taken once the heap holds MaxHeap slots
MaxInterval == 30
MaxPairLen == 2      \* slots of the memory store when it runs beside the file store    \* configured GCInterval runs over -MaxInterval..MaxInterval

Keys == {"k1", "k2"}
Values == {"v1", "v2"}
Lifetimes == 1..MaxLife
Ids == 1..(MaxLen + MaxHeap + Cardinality(Keys))

NoItem == 0          \* a key the index map does not hold
Nil == "nil"         \* Go's nil: no value from Get, no error from the others
ErrGC == "err"       \* a non-nil error returned by a store's GC

VARIABLES
    now,        \* memoryStore.nowFunc(): the clock
    heap,       \* memoryStore.heap: the slots, each a *memoryItem (an id)
    items,      \* the memoryItem each pointer designates
    index,      \* memoryStore.index: key -> *memoryItem
    cleanups,   \* goroutines spawned by Get that have not yet run Delete
    panicked,   \* a heap operation indexed the slice out of range
    lastOp,     \* the call that returned last, and what it returned
    lastSet,    \* per key, the value and expiry of the last Set, as long as no
                \* Delete of the key and no Flush followed and the clock is
                \* before that expiry
    pc,         \* where the startGC goroutine is
    stopper,    \* the caller of stop <- struct{}{}: idle, sending, sent,
                \* and for a second send: resending, resent
    tickC,      \* ticker.C holds a tick (the channel has capacity 1)
    gcErr,      \* err of the GC call of the current iteration
    gcCalls,    \* GC calls started by the goroutine
    gcFailed,   \* GC calls that returned an error
    sinkCalls,  \* calls of errFunc
    ticksRecv,  \* ticks received from ticker.C
    gcSinceStop, \* GC calls started after the stop send was issued
    task,       \* per calling goroutine: the call it is in and where it is
    rw,         \* memoryStore.lock, a sync.RWMutex
    cl,         \* per key, where the cleanup goroutine that took rw.w is
    opts,       \* Cacher: the Options it was given (arg), its local opt, and
                \* whether parseOptions has run
    files,      \* the file store: key -> the fileItem its file holds
    rootDir,    \* the root directory of the file store exists
    fcleanups,  \* goroutines spawned by fileStore.Get that have not yet run
    rows,       \* the MySQL store's table: key -> its row (data, expired_at)
    gcLast      \* per caller: what its GC call in progress removed last

storeVars == <<now, heap, items, index, cleanups, panicked, lastOp, lastSet>>
schedVars == <<pc, stopper, tickC, gcErr, gcCalls, gcFailed, sinkCalls,
               ticksRecv, gcSinceStop>>
concVars == <<task, rw, cl>>
optVars == <<opts>>
fileVars == <<files, rootDir, fcleanups>>
sqlVars == <<rows>>
otherVars == <<task, rw, cl, opts, files, rootDir, fcleanups, rows, gcLast>>
vars == <<now, heap, items, index, cleanups, panicked, lastOp, lastSet,
          pc, stopper, tickC, gcErr, gcCalls, gcFailed, sinkCalls,
          ticksRecv, gcSinceStop, task, rw, cl, opts, files, rootDir, fcleanups,
          rows, gcLast>>

(* ------------------------- memoryItem and heap ------------------------ *)
\* Memory no pointer designates any more.
Blank == [key |-> "", value |-> Nil, expiredAt |-> 0, index |-> -1]

newMemoryItem(key, value, expiredAt) ==
    [key |-> key, value |-> value, expiredAt |-> expiredAt, index |-> 0]

\* The store as one value: st.heap, st.items, st.index, st.panicked.
Store == [heap |-> heap, items |-> items, index |-> index, panicked |-> panicked]

newMemoryStore ==
    [heap |-> <<>>, items |-> [i \in Ids |-> Blank],
     index |-> [k \in Keys |-> NoItem], panicked |-> FALSE]

HeapLen(st) == Len(st.heap)

\* Slot i of the Go slice (0-based).
At(st, i) == st.items[st.heap[i + 1]]

\* Less the wrong way round: the item that expires last comes first.
LessAfter(st, i, j) == At(st, i).expiredAt > At(st, j).expiredAt

Less(st, i, j) == At(st, i).expiredAt < At(st, j).expiredAt

\* Swap that moves the pointers and leaves the items' index fields alone.
SwapNoIndex(st, i, j) ==
    [st EXCEPT !.heap = [st.heap EXCEPT ![i + 1] = st.heap[j + 1],
                                        ![j + 1] = st.heap[i + 1]]]

Swap(st, i, j) ==
    LET h == [st.heap EXCEPT ![i + 1] = st.heap[j + 1], ![j + 1] = st.heap[i + 1]]
        it1 == [st.items EXCEPT ![h[i + 1]].index = i]
        it2 == [it1 EXCEPT ![h[j + 1]].index = j]
    IN  [st EXCEPT !.heap = h, !.items = it2]

\* A pointer no slot and no index entry holds.
FreeId(st) ==
    CHOOSE i \in Ids :
        /\ \A p \in 1..Len(st.heap) : st.heap[p] # i
        /\ \A k \in Keys : st.index[k] # i
        /\ \A j \in Ids :
             (/\ \A p \in 1..Len(st.heap) : st.heap[p] # j
              /\ \A k \in Keys : st.index[k] # j) => i <= j

\* Push that appends the item and does not record its slot in it.
PushNoIndex(st, x) ==
    LET id == FreeId(st)
    IN  [st EXCEPT !.heap = Append(st.heap, id),
                   !.items = [st.items EXCEPT ![id] = x],
                   !.index = [st.index EXCEPT ![x.key] = id]]

Push(st, x) ==
    LET n == HeapLen(st)
        id == FreeId(st)
    IN  [st EXCEPT !.heap = Append(st.heap, id),
                   !.items = [st.items EXCEPT ![id] = [x EXCEPT !.index = n]],
                   !.index = [st.index EXCEPT ![x.key] = id]]

\* Pop without delete(s.index, item.key).
PopKeepsIndex(st) ==
    LET n == HeapLen(st)
        id == st.heap[n]
    IN  [st EXCEPT !.heap = SubSeq(st.heap, 1, n - 1),
                   !.items = [st.items EXCEPT ![id] = Blank]]

Pop(st) ==
    LET n == HeapLen(st)
        id == st.heap[n]
        key == st.items[id].key
    IN  [st EXCEPT !.heap = SubSeq(st.heap, 1, n - 1),
                   !.items = [st.items EXCEPT ![id] = Blank],
                   !.index = [st.index EXCEPT ![key] = NoItem]]

RECURSIVE up(_, _)
up(st, j) ==
    LET i == IF j = 0 THEN 0 ELSE (j - 1) \div 2
    IN  IF i = j \/ ~Less(st, j, i) THEN st ELSE up(Swap(st, i, j), i)

\* down that never looks at the right child.
RECURSIVE downLeft(_, _, _)
downLeft(st, i, n) ==
    LET j == 2 * i + 1
    IN  IF j >= n THEN [st |-> st, i |-> i]
        ELSE IF ~Less(st, j, i) THEN [st |-> st, i |-> i]
        ELSE downLeft(Swap(st, i, j), j, n)

\* down returns the store and the slot the element ended in.
RECURSIVE down(_, _, _)
down(st, i, n) ==
    LET j1 == 2 * i + 1
        j == IF j1 + 1 < n /\ Less(st, j1 + 1, j1) THEN j1 + 1 ELSE j1
    IN  IF j1 >= n THEN [st |-> st, i |-> i]
        ELSE IF ~Less(st, j, i) THEN [st |-> st, i |-> i]
        ELSE down(Swap(st, i, j), j, n)

heapPush(st, x) ==
    LET s1 == Push(st, x) IN up(s1, HeapLen(s1) - 1)

heapRemove(st, i) ==
    IF i < 0 \/ i >= HeapLen(st) THEN [st EXCEPT !.panicked = TRUE]
    ELSE LET n == HeapLen(st) - 1
             s1 == IF n # i
                   THEN LET s2 == Swap(st, i, n)
                            d == down(s2, i, n)
                        IN  IF d.i > i THEN d.st ELSE up(d.st, i)
                   ELSE st
         IN  Pop(s1)

(* --------------------------- store operations ------------------------- *)
\* Expired with the boundary wrong: an item is kept at now = expiredAt.
ExpiredAfter(item, t) == t > item.expiredAt

Expired(item, t) == ~(t < item.expiredAt)

\* What Get returns for key at clock t.
GetValue(st, key, t) ==
    IF st.index[key] = NoItem THEN Nil
    ELSE IF Expired(st.items[st.index[key]], t) THEN Nil
    ELSE st.items[st.index[key]].value

\* Get that hands every key it finds to a cleanup goroutine.
GetSpawnsPresent(st, key, t) == st.index[key] # NoItem

\* Get spawns the cleanup goroutine exactly when it finds the item expired.
GetSpawns(st, key, t) ==
    st.index[key] # NoItem /\ Expired(st.items[st.index[key]], t)

\* Set that stores nothing when the lifetime is not positive.
SetStoreSkips(st, key, value, lifetime, t) ==
    IF lifetime <= 0 THEN st
    ELSE heapPush(st, newMemoryItem(key, value, t + lifetime))

SetStore(st, key, value, lifetime, t) ==
    heapPush(st, newMemoryItem(key, value, t + lifetime))

\* Delete removing the root instead of the slot item.index names.
DeleteStoreRoot(st, key) ==
    IF st.index[key] = NoItem THEN st
    ELSE heapRemove(st, 0)

\* Delete that takes the key to be present and fails when it is not.
DeleteStoreAssert(st, key) ==
    IF st.index[key] = NoItem THEN [st EXCEPT !.panicked = TRUE]
    ELSE heapRemove(st, st.items[st.index[key]].index)

DeleteStore(st, key) ==
    IF st.index[key] = NoItem THEN st
    ELSE heapRemove(st, st.items[st.index[key]].index)

\* Flush that resets the index and leaves the heap.
FlushIndexOnly(st) ==
    [st EXCEPT !.index = [k \in Keys |-> NoItem]]

FlushStore(st) ==
    [st EXCEPT !.heap = <<>>, !.items = [i \in Ids |-> Blank],
               !.index = [k \in Keys |-> NoItem]]

\* One critical section of the GC loop: done, or the root removed.
\* An iteration that finds the root expired, leaves it and goes round again.
GCStepKeeps(st, t) ==
    IF HeapLen(st) = 0 THEN [st |-> st, done |-> TRUE]
    ELSE IF t < At(st, 0).expiredAt THEN [st |-> st, done |-> TRUE]
    ELSE [st |-> st, done |-> FALSE]

\* An iteration that keeps a root expiring at this very instant.
GCStepStrict(st, t) ==
    IF HeapLen(st) = 0 THEN [st |-> st, done |-> TRUE]
    ELSE IF t <= At(st, 0).expiredAt THEN [st |-> st, done |-> TRUE]
    ELSE [st |-> heapRemove(st, At(st, 0).index), done |-> FALSE]

\* An iteration that tests the root and removes the last slot.
GCStepLast(st, t) ==
    IF HeapLen(st) = 0 THEN [st |-> st, done |-> TRUE]
    ELSE IF t < At(st, 0).expiredAt THEN [st |-> st, done |-> TRUE]
    ELSE [st |-> heapRemove(st, HeapLen(st) - 1), done |-> FALSE]

GCStep(st, t) ==
    IF HeapLen(st) = 0 THEN [st |-> st, done |-> TRUE]
    ELSE IF t < At(st, 0).expiredAt THEN [st |-> st, done |-> TRUE]
    ELSE [st |-> heapRemove(st, At(st, 0).index), done |-> FALSE]

\* A GC loop that never looks at ctx.Done().
RECURSIVE GCStoreDeaf(_, _, _)
GCStoreDeaf(st, t, budget) ==
    IF GCStep(st, t).done \/ GCStep(st, t).st.panicked THEN GCStep(st, t).st
    ELSE GCStoreDeaf(GCStep(st, t).st, t, budget)

\* The GC loop; ctx is done once `budget` iterations have run.
RECURSIVE GCStore(_, _, _)
GCStore(st, t, budget) ==
    IF budget = 0 THEN st
    ELSE LET r == GCStep(st, t)
         IN  IF r.done \/ r.st.panicked THEN r.st
             ELSE GCStore(r.st, t, budget - 1)

(* ------------------------------ the calls ----------------------------- *)
NoSet == <<>>

Op(op, key, ret) == [op |-> op, key |-> key, ret |-> ret]

schedInit ==
    /\ pc = "start"
    /\ stopper = "idle"
    /\ tickC = FALSE
    /\ gcErr = Nil
    /\ gcCalls = 0
    /\ gcFailed = 0
    /\ sinkCalls = 0
    /\ ticksRecv = 0
    /\ gcSinceStop = 0

storeInit ==
    /\ now = 0
    /\ heap = newMemoryStore.heap
    /\ items = newMemoryStore.items
    /\ index = newMemoryStore.index
    /\ panicked = newMemoryStore.panicked
    /\ cleanups = [k \in Keys |-> 0]
    /\ lastOp = Op("new", "", Nil)
    /\ lastSet = [k \in Keys |-> NoSet]

\* A goroutine that is in none of the store's methods.
Idle == [pc |-> "idle", op |-> "", key |-> "", ret |-> Nil]

Callers == 1..MaxCallers

\* The zero sync.RWMutex: rw.w unlocked, no reader.
concInit ==
    /\ task = [t \in Callers |-> Idle]
    /\ rw = [w |-> FALSE, readers |-> 0]
    /\ cl = [k \in Keys |-> "none"]

\* Options as parseOptions reads them: time.Duration in tenths of a second,
\* a nil or non-nil Initer and ErrorFunc.
Options(initer, interval, errorFunc) ==
    [Initer |-> initer, GCInterval |-> interval, ErrorFunc |-> errorFunc]

\* Cacher called without options: var opt Options, not yet parsed.
optInit ==
    opts = [arg |-> Options(Nil, 0, Nil), opt |-> Options(Nil, 0, Nil),
            parsed |-> FALSE]

NoFile == <<>>       \* a key whose file does not exist

fileInit ==
    /\ files = [k \in Keys |-> NoFile]
    /\ rootDir = FALSE
    /\ fcleanups = [k \in Keys |-> 0]

NoRow == <<>>        \* a key the table has no row for

\* The table as CREATE TABLE leaves it.
sqlInit == rows = [k \in Keys |-> NoRow]

NoRemoval == <<>>    \* a GC call that has removed nothing yet, or no GC call

ghostInit == gcLast = [t \in Callers |-> NoRemoval]

Init ==
    /\ storeInit /\ schedInit /\ concInit /\ optInit /\ fileInit /\ sqlInit
    /\ ghostInit

\* A *memoryItem means nothing beyond its identity: the pointers are renamed
\* so that slot p holds pointer p (item.index is a field of its own and is
\* not touched). An index entry always designates an item some slot holds.
Renamed(st) ==
    LET n == Len(st.heap)
        slotOf(id) == CHOOSE p \in 1..n : st.heap[p] = id
    IN  [heap |-> [p \in 1..n |-> p],
         items |-> [i \in Ids |-> IF i <= n THEN st.items[st.heap[i]] ELSE Blank],
         index |-> [k \in Keys |-> IF st.index[k] = NoItem THEN NoItem
                                   ELSE slotOf(st.index[k])],
         panicked |-> st.panicked]

\* The store after a call: st is what the call left.
Becomes(st) ==
    /\ heap' = Renamed(st).heap
    /\ items' = Renamed(st).items
    /\ index' = Renamed(st).index
    /\ panicked' = st.panicked

Set(key, value, lifetime) ==
    /\ HeapLen(Store) < MaxLen
    /\ Becomes(SetStore(Store, key, value, lifetime, now))
    /\ lastOp' = Op("Set", key, Nil)
    /\ lastSet' = [lastSet EXCEPT ![key] = <<value, now + lifetime>>]
    /\ UNCHANGED <<now, cleanups>>
    /\ UNCHANGED schedVars
    /\ UNCHANGED otherVars

Get(key) ==
    /\ GetSpawns(Store, key, now) => cleanups[key] < MaxPending
    /\ cleanups' = IF GetSpawns(Store, key, now)
                   THEN [cleanups EXCEPT ![key] = @ + 1]
                   ELSE cleanups
    /\ lastOp' = Op("Get", key, GetValue(Store, key, now))
    /\ UNCHANGED <<now, heap, items, index, panicked, lastSet>>
    /\ UNCHANGED schedVars
    /\ UNCHANGED otherVars

Delete(key) ==
    /\ Becomes(DeleteStore(Store, key))
    /\ lastOp' = Op("Delete", key, Nil)
    /\ lastSet' = [lastSet EXCEPT ![key] = NoSet]
    /\ UNCHANGED <<now, cleanups>>
    /\ UNCHANGED schedVars
    /\ UNCHANGED otherVars

\* The goroutine spawned by Get: go func() { _ = s.Delete(key) }().
Cleanup(key) ==
    /\ cleanups[key] > 0
    /\ cleanups' = [cleanups EXCEPT ![key] = @ - 1]
    /\ Becomes(DeleteStore(Store, key))
    /\ lastOp' = Op("cleanup", key, Nil)
    /\ UNCHANGED <<now, lastSet>>
    /\ UNCHANGED schedVars
    /\ UNCHANGED otherVars

Flush ==
    /\ Becomes(FlushStore(Store))
    /\ lastOp' = Op("Flush", "", Nil)
    /\ lastSet' = [k \in Keys |-> NoSet]
    /\ UNCHANGED <<now, cleanups>>
    /\ UNCHANGED schedVars
    /\ UNCHANGED otherVars

\* GC with a context that is never done while it runs.
GC ==
    /\ Becomes(GCStore(Store, now, HeapLen(Store) + 1))
    /\ lastOp' = Op("GC", "", Nil)
    /\ UNCHANGED <<now, cleanups, lastSet>>
    /\ UNCHANGED schedVars
    /\ UNCHANGED otherVars

\* GC with a context that is done after `budget` iterations of the loop.
GCCancelled(budget) ==
    /\ Becomes(GCStore(Store, now, budget))
    /\ lastOp' = Op("GC", "ctx.Done", Nil)
    /\ UNCHANGED <<now, cleanups, lastSet>>
    /\ UNCHANGED schedVars
    /\ UNCHANGED otherVars

\* The injected clock moves on.
Advance ==
    /\ now < MaxClock
    /\ now' = now + 1
    /\ lastOp' = Op("clock", "", Nil)
    /\ lastSet' = [k \in Keys |->
                     IF lastSet[k] # NoSet /\ now + 1 < lastSet[k][2]
                     THEN lastSet[k] ELSE NoSet]
    /\ UNCHANGED <<heap, items, index, panicked, cleanups>>
    /\ UNCHANGED schedVars
    /\ UNCHANGED otherVars

(* ----------------------------- the scheduler -------------------------- *)
\* go func() { ticker := time.NewTicker(interval) ...
SchedStart ==
    /\ pc = "start"
    /\ pc' = "gc"
    /\ UNCHANGED <<stopper, tickC, gcErr, gcCalls, gcFailed, sinkCalls,
                   ticksRecv, gcSinceStop>>
    /\ UNCHANGED storeVars
    /\ UNCHANGED otherVars

\* A GC call that a pending stop cuts short: the goroutine takes the signal
\* and returns from the middle of the call.
SchedGCPreempted(err) ==
    /\ pc = "gc"
    /\ IF stopper = "sending"
       THEN /\ stopper' = "sent"
            /\ pc' = "done"
            /\ UNCHANGED <<gcErr, gcCalls, gcFailed, gcSinceStop>>
       ELSE /\ gcErr' = err
            /\ gcCalls' = gcCalls + 1
            /\ gcFailed' = IF err # Nil THEN gcFailed + 1 ELSE gcFailed
            /\ gcSinceStop' = gcSinceStop
            /\ pc' = "err"
            /\ stopper' = stopper
    /\ UNCHANGED <<tickC, sinkCalls, ticksRecv>>
    /\ UNCHANGED storeVars
    /\ UNCHANGED otherVars

\* err := m.store.GC(ctx), for any store behind the Cache interface.
SchedGC(err) ==
    /\ pc = "gc"
    /\ gcErr' = err
    /\ gcCalls' = gcCalls + 1
    /\ gcFailed' = IF err # Nil THEN gcFailed + 1 ELSE gcFailed
    /\ gcSinceStop' = IF stopper = "sending" THEN gcSinceStop + 1 ELSE gcSinceStop
    /\ pc' = "err"
    /\ UNCHANGED <<stopper, tickC, sinkCalls, ticksRecv>>
    /\ UNCHANGED storeVars
    /\ UNCHANGED otherVars

\* The loop returning after it reported an error.
SchedErrExits ==
    /\ pc = "err"
    /\ sinkCalls' = IF gcErr # Nil THEN sinkCalls + 1 ELSE sinkCalls
    /\ pc' = IF gcErr # Nil THEN "done" ELSE "select"
    /\ UNCHANGED <<stopper, tickC, gcErr, gcCalls, gcFailed, ticksRecv, gcSinceStop>>
    /\ UNCHANGED storeVars
    /\ UNCHANGED otherVars

\* errFunc called without the err != nil test.
SchedErrAlways ==
    /\ pc = "err"
    /\ sinkCalls' = sinkCalls + 1
    /\ pc' = "select"
    /\ UNCHANGED <<stopper, tickC, gcErr, gcCalls, gcFailed, ticksRecv, gcSinceStop>>
    /\ UNCHANGED storeVars
    /\ UNCHANGED otherVars

\* if err != nil { errFunc(err) }
SchedErr ==
    /\ pc = "err"
    /\ sinkCalls' = IF gcErr # Nil THEN sinkCalls + 1 ELSE sinkCalls
    /\ pc' = "select"
    /\ UNCHANGED <<stopper, tickC, gcErr, gcCalls, gcFailed, ticksRecv, gcSinceStop>>
    /\ UNCHANGED storeVars
    /\ UNCHANGED otherVars

\* case <-stop that takes the signal and goes round the loop again.
SchedStopStays ==
    /\ pc = "select"
    /\ stopper \in {"sending", "resending"}
    /\ stopper' = IF stopper = "sending" THEN "sent" ELSE "resent"
    /\ pc' = "gc"
    /\ UNCHANGED <<tickC, gcErr, gcCalls, gcFailed, sinkCalls, ticksRecv, gcSinceStop>>
    /\ UNCHANGED storeVars
    /\ UNCHANGED otherVars

\* case <-stop: ticker.Stop(); return. The send and the receive on the
\* unbuffered channel complete together.
SchedStop ==
    /\ pc = "select"
    /\ stopper \in {"sending", "resending"}
    /\ stopper' = IF stopper = "sending" THEN "sent" ELSE "resent"
    /\ pc' = "done"
    /\ UNCHANGED <<tickC, gcErr, gcCalls, gcFailed, sinkCalls, ticksRecv, gcSinceStop>>
    /\ UNCHANGED storeVars
    /\ UNCHANGED otherVars

\* case <-ticker.C:
SchedTick ==
    /\ pc = "select"
    /\ tickC
    /\ tickC' = FALSE
    /\ ticksRecv' = ticksRecv + 1
    /\ pc' = "gc"
    /\ UNCHANGED <<stopper, gcErr, gcCalls, gcFailed, sinkCalls, gcSinceStop>>
    /\ UNCHANGED storeVars
    /\ UNCHANGED otherVars

\* The interval elapses: the ticker puts a tick in its channel of capacity 1
\* (a tick that finds the channel full is dropped).
TickerFire ==
    /\ pc \in {"gc", "err", "select"}
    /\ ~tickC
    /\ ticksRecv + 1 < MaxGC
    /\ tickC' = TRUE
    /\ UNCHANGED <<pc, stopper, gcErr, gcCalls, gcFailed, sinkCalls, ticksRecv,
                   gcSinceStop>>
    /\ UNCHANGED storeVars
    /\ UNCHANGED otherVars

\* The owner of the channel startGC returned executes stop <- struct{}{}.
StopSend ==
    /\ stopper = "idle"
    /\ stopper' = "sending"
    /\ UNCHANGED <<pc, tickC, gcErr, gcCalls, gcFailed, sinkCalls, ticksRecv,
                   gcSinceStop>>
    /\ UNCHANGED storeVars
    /\ UNCHANGED otherVars

Next ==
    \/ \E k \in Keys, v \in Values, l \in Lifetimes : Set(k, v, l)
    \/ \E k \in Keys : Get(k)
    \/ \E k \in Keys : Delete(k)
    \/ \E k \in Keys : Cleanup(k)
    \/ Flush
    \/ GC
    \/ \E b \in 0..HeapLen(Store) : GCCancelled(b)
    \/ Advance

Spec == Init /\ [][Next]_vars

SchedNext ==
    \/ SchedStart
    \/ \E e \in {Nil, ErrGC} : SchedGC(e)
    \/ SchedErr
    \/ SchedStop
    \/ SchedTick
    \/ TickerFire
    \/ StopSend

SchedSpec == Init /\ [][SchedNext]_vars

\* Go's select picks among the ready cases at random: a case that is ready
\* again and again is taken in the end.
FairSchedSpec ==
    /\ SchedSpec
    /\ WF_vars(SchedStart)
    /\ WF_vars(\E e \in {Nil, ErrGC} : SchedGC(e))
    /\ WF_vars(SchedErr)
    /\ SF_vars(SchedStop)

(* ------------------- the store's calls under its lock ----------------- *)
\* sync.RWMutex as the calls use it. rw.w is the writer mutex: Lock takes it
\* and announces the writer, which keeps new readers out, then waits until
\* the readers that are inside have left. RLock waits while a writer is
\* announced. A critical section runs when its goroutine enters it.
ConcOps == {"Get", "Set", "Delete", "Flush", "GC"}

\* The keys the concurrent callers use.
ConcKeys == {"k1"}

\* Set calls that have not yet pushed their item.
SetsToCome == Cardinality({u \in Callers : task[u].op = "Set" /\ task[u].pc \in {"lock", "drain"}})

\* Get calls on key that have not yet read the index.
GetsToCome(key) ==
    Cardinality({u \in Callers : task[u].op = "Get" /\ task[u].key = key /\ task[u].pc = "rlock"})

\* A goroutine calls a method of the store.
Call(t, op, key) ==
    /\ task[t].pc = "idle"
    /\ op \in {"Flush", "GC"} <=> key = ""
    /\ op = "Set" => HeapLen(Store) + SetsToCome < MaxConcLen
    /\ op = "Get" => cleanups[key] + GetsToCome(key) < MaxSpawned
    /\ task' = [task EXCEPT ![t] = [pc |-> IF op = "Get" THEN "rlock" ELSE "lock",
                                    op |-> op, key |-> key, ret |-> Nil]]
    /\ UNCHANGED <<rw, cl, opts, gcLast, rows, files, rootDir, fcleanups>>
    /\ UNCHANGED storeVars
    /\ UNCHANGED schedVars

\* Get that runs the removal itself and waits for it, still holding the read
\* lock, instead of handing it to a goroutine.
RLockThenDelete(t) ==
    /\ task[t].pc = "rlock"
    /\ ~rw.w
    /\ rw' = [rw EXCEPT !.readers = @ + 1]
    /\ task' = IF GetSpawns(Store, task[t].key, now)
               THEN [task EXCEPT ![t].pc = "lock", ![t].op = "Delete"]
               ELSE [task EXCEPT ![t].pc = "reading",
                                 ![t].ret = GetValue(Store, task[t].key, now)]
    /\ UNCHANGED <<now, heap, items, index, panicked, lastOp, lastSet, cleanups>>
    /\ UNCHANGED <<cl, opts, gcLast, rows, files, rootDir, fcleanups>>
    /\ UNCHANGED schedVars

\* s.lock.RLock() of Get, and what Get reads under it.
RLock(t) ==
    /\ task[t].pc = "rlock"
    /\ ~rw.w
    /\ rw' = [rw EXCEPT !.readers = @ + 1]
    /\ task' = [task EXCEPT ![t].pc = "reading",
                            ![t].ret = GetValue(Store, task[t].key, now)]
    /\ cleanups' = IF GetSpawns(Store, task[t].key, now)
                   THEN [cleanups EXCEPT ![task[t].key] = @ + 1]
                   ELSE cleanups
    /\ UNCHANGED <<now, heap, items, index, panicked, lastOp, lastSet>>
    /\ UNCHANGED <<cl, opts, gcLast, rows, files, rootDir, fcleanups>>
    /\ UNCHANGED schedVars

\* defer s.lock.RUnlock() of Get: Get returns.
RUnlock(t) ==
    /\ task[t].pc = "reading"
    /\ rw' = [rw EXCEPT !.readers = @ - 1]
    /\ task' = [task EXCEPT ![t] = Idle]
    /\ UNCHANGED <<cl, opts, gcLast, rows, files, rootDir, fcleanups>>
    /\ UNCHANGED storeVars
    /\ UNCHANGED schedVars

\* Lock that takes rw.w whether or not another writer holds it.
LockNoWait(t) ==
    /\ task[t].pc = "lock"
    /\ rw' = [rw EXCEPT !.w = TRUE]
    /\ task' = [task EXCEPT ![t].pc = "drain"]
    /\ UNCHANGED <<cl, opts, gcLast, rows, files, rootDir, fcleanups>>
    /\ UNCHANGED storeVars
    /\ UNCHANGED schedVars

\* s.lock.Lock(), first half: rw.w is taken and the writer announced.
Lock(t) ==
    /\ task[t].pc = "lock"
    /\ ~rw.w
    /\ rw' = [rw EXCEPT !.w = TRUE]
    /\ task' = [task EXCEPT ![t].pc = "drain"]
    /\ UNCHANGED <<cl, opts, gcLast, rows, files, rootDir, fcleanups>>
    /\ UNCHANGED storeVars
    /\ UNCHANGED schedVars

\* Lock that does not wait for the readers to leave.
EnterGuardNone == TRUE

\* s.lock.Lock(), second half: the readers have left.
EnterGuard == rw.readers = 0

\* The critical section of Set, Delete, Flush, or of one iteration of GC,
\* with the lifetime of a Set drawn from lifetimes.
EnterWith(t, lifetimes) ==
    /\ task[t].pc = "drain"
    /\ EnterGuard
    /\ \/ /\ task[t].op = "Set"
          /\ \E value \in Values, lifetime \in lifetimes :
               /\ Becomes(SetStore(Store, task[t].key, value, lifetime, now))
               /\ lastSet' = [lastSet EXCEPT ![task[t].key] = <<value, now + lifetime>>]
          /\ task' = [task EXCEPT ![t].pc = "writing"]
       \/ /\ task[t].op = "Delete"
          /\ Becomes(DeleteStore(Store, task[t].key))
          /\ lastSet' = [lastSet EXCEPT ![task[t].key] = NoSet]
          /\ task' = [task EXCEPT ![t].pc = "writing"]
       \/ /\ task[t].op = "Flush"
          /\ Becomes(FlushStore(Store))
          /\ lastSet' = [k \in Keys |-> NoSet]
          /\ task' = [task EXCEPT ![t].pc = "writing"]
       \/ /\ task[t].op = "GC"
          /\ Becomes(GCStep(Store, now).st)
          /\ lastSet' = lastSet
          /\ task' = [task EXCEPT ![t].pc = "writing",
                                  ![t].ret = IF GCStep(Store, now).done
                                             THEN "done" ELSE "more"]
    /\ UNCHANGED <<now, cleanups, lastOp>>
    /\ UNCHANGED <<rw, cl, opts, rows, files, rootDir, fcleanups>>
    /\ UNCHANGED schedVars

Enter(t) ==
    /\ EnterWith(t, Lifetimes)
    /\ UNCHANGED gcLast

\* s.lock.Unlock(): the call returns, or GC goes round its loop.
Unlock(t) ==
    /\ task[t].pc = "writing"
    /\ rw' = [rw EXCEPT !.w = FALSE]
    /\ task' = [task EXCEPT ![t] = IF task[t].op = "GC" /\ task[t].ret = "more"
                                   THEN [Idle EXCEPT !.pc = "lock", !.op = "GC"]
                                   ELSE Idle]
    /\ UNCHANGED <<cl, opts, gcLast, rows, files, rootDir, fcleanups>>
    /\ UNCHANGED storeVars
    /\ UNCHANGED schedVars

\* case <-ctx.Done() at the top of the GC loop: GC returns nil.
GCReturns(t) ==
    /\ task[t].pc = "lock"
    /\ task[t].op = "GC"
    /\ task' = [task EXCEPT ![t] = Idle]
    /\ UNCHANGED <<rw, cl, opts, rows, files, rootDir, fcleanups>>
    /\ UNCHANGED storeVars
    /\ UNCHANGED schedVars

GCDone(t) ==
    /\ GCReturns(t)
    /\ UNCHANGED gcLast

\* The goroutine spawned by Get calls Delete: s.lock.Lock(), first half.
CleanLock(key) ==
    /\ cleanups[key] > 0
    /\ cl[key] = "none"
    /\ ~rw.w
    /\ cleanups' = [cleanups EXCEPT ![key] = @ - 1]
    /\ cl' = [cl EXCEPT ![key] = "drain"]
    /\ rw' = [rw EXCEPT !.w = TRUE]
    /\ UNCHANGED <<now, heap, items, index, panicked, lastOp, lastSet>>
    /\ UNCHANGED <<task, opts, gcLast, rows, files, rootDir, fcleanups>>
    /\ UNCHANGED schedVars

\* The critical section of the spawned Delete.
CleanEnter(key) ==
    /\ cl[key] = "drain"
    /\ EnterGuard
    /\ Becomes(DeleteStore(Store, key))
    /\ cl' = [cl EXCEPT ![key] = "writing"]
    /\ UNCHANGED <<now, cleanups, lastOp, lastSet>>
    /\ UNCHANGED <<task, rw, opts, gcLast, rows, files, rootDir, fcleanups>>
    /\ UNCHANGED schedVars

\* The spawned Delete returns and its goroutine ends.
CleanUnlock(key) ==
    /\ cl[key] = "writing"
    /\ cl' = [cl EXCEPT ![key] = "none"]
    /\ rw' = [rw EXCEPT !.w = FALSE]
    /\ UNCHANGED <<task, opts, gcLast, rows, files, rootDir, fcleanups>>
    /\ UNCHANGED storeVars
    /\ UNCHANGED schedVars

ConcNext ==
    \/ \E t \in Callers, op \in ConcOps, key \in ConcKeys \cup {""} : Call(t, op, key)
    \/ \E t \in Callers : RLock(t)
    \/ \E t \in Callers : RUnlock(t)
    \/ \E t \in Callers : Lock(t)
    \/ \E t \in Callers : Enter(t)
    \/ \E t \in Callers : Unlock(t)
    \/ \E t \in Callers : GCDone(t)
    \/ \E key \in ConcKeys : CleanLock(key)
    \/ \E key \in ConcKeys : CleanEnter(key)
    \/ \E key \in ConcKeys : CleanUnlock(key)
    \/ Advance

ConcSpec == Init /\ [][ConcNext]_vars

\* A goroutine that can run does run. A goroutine blocked in RLock is let in
\* when the writer unlocks, and sync.Mutex hands rw.w to a goroutine that has
\* waited for long (starvation mode): no caller of RLock or Lock is passed
\* over for ever. Nothing obliges a goroutine to call the store, the clock to
\* move, or a context to be done.
\* Under FairConcSpec a Set starts only while the heap holds fewer than
\* MaxLiveLen slots.
LiveCall(t, op, key) ==
    /\ op = "Set" => HeapLen(Store) + SetsToCome < MaxLiveLen
    /\ Call(t, op, key)

LiveNext ==
    \/ \E t \in Callers, op \in ConcOps, key \in ConcKeys \cup {""} : LiveCall(t, op, key)
    \/ \E t \in Callers : RLock(t)
    \/ \E t \in Callers : RUnlock(t)
    \/ \E t \in Callers : Lock(t)
    \/ \E t \in Callers : Enter(t)
    \/ \E t \in Callers : Unlock(t)
    \/ \E t \in Callers : GCDone(t)
    \/ \E key \in ConcKeys : CleanLock(key)
    \/ \E key \in ConcKeys : CleanEnter(key)
    \/ \E key \in ConcKeys : CleanUnlock(key)
    \/ Advance

FairConcSpec ==
    /\ Init /\ [][LiveNext]_vars
    /\ \A t \in Callers :
          /\ SF_vars(RLock(t))
          /\ WF_vars(RUnlock(t))
          /\ SF_vars(Lock(t))
          /\ WF_vars(Enter(t))
          /\ WF_vars(Unlock(t))
    /\ \A k \in ConcKeys :
          /\ SF_vars(CleanLock(k))
          /\ WF_vars(CleanEnter(k))
          /\ WF_vars(CleanUnlock(k))

(* ------------------------- claims: the memory store ------------------- *)
\* The item the index holds for key.
Entry(key) == items[index[key]]

\* The slots as a function slot -> <<key, value, expiredAt>>.
Slots(st) == [p \in 1..Len(st.heap) |->
                <<st.items[st.heap[p]].key, st.items[st.heap[p]].value,
                  st.items[st.heap[p]].expiredAt>>]

\* How many slots of st hold the triple e.
Count(st, e) == Cardinality({p \in 1..Len(st.heap) : Slots(st)[p] = e})

\* C1: as long as set(k, v, L) at clock T is the most recent set on k, no
\* delete(k) and no flush followed it and now < T+L, get(k) returns v.
C1_GetReturnsLastSet ==
    \A k \in Keys :
        lastSet[k] # NoSet => GetValue(Store, k, now) = lastSet[k][1]

\* C2: the heap holds at most one slot per key.
C2_OneSlotPerKey ==
    \A p, q \in 1..Len(heap) :
        items[heap[p]].key = items[heap[q]].key => p = q

\* C3: the index and the heap are in bijection: every indexed key designates
\* the item of exactly one slot, every slot's key is indexed and maps back to
\* that slot's item, and the number of indexed keys is Len().
C3_IndexHeapBijection ==
    /\ \A k \in Keys :
         index[k] # NoItem =>
            /\ Entry(k).key = k
            /\ Cardinality({p \in 1..Len(heap) : heap[p] = index[k]}) = 1
    /\ \A p \in 1..Len(heap) : index[items[heap[p]].key] = heap[p]
    /\ Cardinality({k \in Keys : index[k] # NoItem}) = Len(heap)

\* C4: get(k) on an entry whose expiredAt is not after now returns nil, removed
\* or not; and a key for which get returns nil keeps returning nil through
\* every step that is not a set(k).
C4_ExpiredStaysNotFound ==
    [][\A k \in Keys :
         /\ (/\ lastOp'.op = "Get" /\ lastOp'.key = k
             /\ index[k] # NoItem /\ Entry(k).expiredAt <= now)
            => lastOp'.ret = Nil
         /\ (/\ GetValue(Store, k, now) = Nil
             /\ ~(lastOp'.op = "Set" /\ lastOp'.key = k))
            => GetValue(Store', k, now') = Nil]_vars

\* C4 witness: a Get has returned nil for an entry that is expired and still
\* in the heap, its cleanup pending.
C4_Witness ==
    /\ lastOp.op = "Get" /\ lastOp.ret = Nil
    /\ index[lastOp.key] # NoItem
    /\ Entry(lastOp.key).expiredAt <= now
    /\ cleanups[lastOp.key] > 0

\* C5: a GC whose context is not done removes exactly the slots with
\* expiredAt <= now, keeps every other slot, and every key get returned a
\* value for before the GC still returns that value.
C5_ReclaimPrecision ==
    [][(lastOp'.op = "GC" /\ lastOp'.key = "") =>
         /\ \A k \in Keys, v \in Values, e \in 0..(MaxClock + MaxLife) :
              Count(Store', <<k, v, e>>) =
                 IF e <= now THEN 0 ELSE Count(Store, <<k, v, e>>)
         /\ \A k \in Keys :
              GetValue(Store, k, now) # Nil =>
                 GetValue(Store', k, now') = GetValue(Store, k, now)]_vars

\* C6: delete(k) returns nil; after it get(k) returns nil, and keeps doing so
\* until a set(k); delete of an absent key leaves heap and index as they were.
C6_DeleteIdempotent ==
    [][\A k \in Keys :
         /\ (lastOp'.op = "Delete" /\ lastOp'.key = k) =>
               /\ lastOp'.ret = Nil
               /\ ~panicked'
               /\ GetValue(Store', k, now') = Nil
               /\ index'[k] = NoItem
         /\ (lastOp'.op = "Delete" /\ lastOp'.key = k /\ index[k] = NoItem) =>
               /\ heap' = heap /\ items' = items /\ index' = index
         /\ (index[k] = NoItem /\ ~(lastOp'.op = "Set" /\ lastOp'.key = k)) =>
               index'[k] = NoItem]_vars

\* C6 witness: a Delete has returned for a key a Get found expired (the
\* cleanup is still pending), the key is absent and another key's entry is
\* still there.
C6_Witness ==
    /\ lastOp.op = "Delete"
    /\ index[lastOp.key] = NoItem
    /\ cleanups[lastOp.key] > 0
    /\ \E k \in Keys : index[k] # NoItem

\* C7: after Flush the heap and the index are empty and get returns nil for
\* every key; a GC that follows removes nothing and returns nil.
C7_FlushCompleteness ==
    [][/\ lastOp'.op = "Flush" =>
            /\ heap' = <<>>
            /\ \A k \in Keys : index'[k] = NoItem /\ GetValue(Store', k, now') = Nil
       /\ (lastOp.op = "Flush" /\ lastOp'.op = "GC") =>
            /\ heap' = <<>> /\ index' = index /\ items' = items
            /\ lastOp'.ret = Nil /\ ~panicked']_vars

\* C7 witness: a Flush has emptied a store that held an expired entry (the
\* cleanup a Get spawned for it is still pending).
C7_Witness ==
    /\ lastOp.op = "Flush"
    /\ heap = <<>>
    /\ \E k \in Keys : cleanups[k] > 0

(* --------------------------- claims: the scheduler -------------------- *)
\* C8: the goroutine calls GC once at once and then once per tick received;
\* it ends only by receiving the stop signal, and once ended it calls GC no
\* more.
C8_SchedulerLoop ==
    [][/\ pc' \in {"err", "select", "done"} => gcCalls' = 1 + ticksRecv'
       /\ pc' \in {"start", "gc"} => gcCalls' = ticksRecv'
       /\ pc' = "done" => stopper' = "sent"
       /\ (pc' = "done" /\ pc # "done") => (pc = "select" /\ stopper = "sending")
       /\ pc = "done" => (pc' = "done" /\ gcCalls' = gcCalls)]_vars

\* C8 witness: the goroutine has ended after its first GC and two more, one
\* per tick, one of them failed.
C8_Witness ==
    /\ pc = "done"
    /\ gcCalls = 3 /\ ticksRecv = 2
    /\ gcFailed >= 1

\* C9: every GC error goes to errFunc exactly once, a GC without error never
\* does, and after errFunc the loop is at its select again.
C9_ErrorsForwarded ==
    [][/\ pc = "err" => /\ pc' \in {"err", "select"}
                        /\ pc' = "select" =>
                             sinkCalls' = sinkCalls + (IF gcErr # Nil THEN 1 ELSE 0)
       /\ pc # "err" => sinkCalls' = sinkCalls
       /\ pc' # "err" => sinkCalls' = gcFailed'
       /\ (pc = "select" /\ tickC /\ pc' = "gc") => gcCalls' = gcCalls
       /\ (pc = "gc" /\ pc' # "gc") => (pc' = "err" /\ gcCalls' = gcCalls + 1)]_vars

\* C9 witness: two GC calls have failed and one has not, errFunc was called
\* twice and the loop waits at its select.
C9_Witness ==
    /\ pc = "select"
    /\ gcFailed = 2 /\ sinkCalls = 2 /\ gcCalls = 3

\* C10: from the moment the stop signal is issued the goroutine starts at most
\* one more GC call before it receives the signal.
C10_OneReclaimAfterStop == gcSinceStop <= 1

\* The other half of C10: the send on the stop channel completes and the
\* goroutine ends.
C10_StopTerminates == (stopper = "sending") ~> (pc = "done" /\ stopper = "sent")

(* ---------------------- claims on the locked calls -------------------- *)
\* Goroutines inside a critical section that mutates heap and index.
Writing ==
    Cardinality({t \in Callers : task[t].pc = "writing"})
      + Cardinality({k \in Keys : cl[k] = "writing"})

\* Goroutines inside the critical section of Get.
Reading == Cardinality({t \in Callers : task[t].pc = "reading"})

\* C11: mutual exclusion. At most one of the mutating critical sections
\* (Set, Delete, Flush, one iteration of GC, the spawned cleanup) is inside
\* the lock at a time, and no Get is inside its read section while one of
\* them is.
C11_MutualExclusion ==
    /\ Writing <= 1
    /\ Writing = 1 => Reading = 0

\* Two Gets hold the shared lock together while a cleanup waits for them.
C11_Witness ==
    /\ Reading >= 2
    /\ rw.readers >= 2
    /\ \E k \in Keys : cl[k] = "drain"

\* C12: the cleanup goroutine that finds its key gone from the index
\* (deleted, flushed, reclaimed, or removed by another cleanup) does nothing:
\* heap and index stay as they are and nothing panics.
C12_CleanupNoOp ==
    [][\A k \in ConcKeys :
          (cl[k] = "drain" /\ cl'[k] = "writing" /\ index[k] = NoItem)
            => (heap' = heap /\ items' = items /\ index' = index /\ ~panicked')]_vars

\* A cleanup is about to run Delete on a key the index no longer holds, and
\* another cleanup of the same key is still waiting.
C12_Witness ==
    \E k \in ConcKeys :
        /\ cl[k] = "drain"
        /\ rw.readers = 0
        /\ index[k] = NoItem
        /\ cleanups[k] >= 1

\* What the lock records is what the goroutines hold: a read lock per Get
\* inside its section, rw.w for the one goroutine between Lock and Unlock. A
\* goroutine waiting to acquire the lock holds none.
LockConsistent ==
    /\ rw.readers = Reading
    /\ rw.w <=> (\/ \E t \in Callers : task[t].pc \in {"drain", "writing"}
                 \/ \E k \in Keys : cl[k] \in {"drain", "writing"})

LinCall(t, op, key) ==
    /\ op # "GC"
    /\ Call(t, op, key)

LinNext ==
    \/ \E t \in Callers, op \in ConcOps, key \in ConcKeys \cup {""} : LinCall(t, op, key)
    \/ \E t \in Callers : RLock(t)
    \/ \E t \in Callers : RUnlock(t)
    \/ \E t \in Callers : Lock(t)
    \/ \E t \in Callers : Enter(t)
    \/ \E t \in Callers : Unlock(t)
    \/ \E key \in ConcKeys : CleanLock(key)
    \/ \E key \in ConcKeys : CleanEnter(key)
    \/ \E key \in ConcKeys : CleanUnlock(key)
    \/ Advance

LinSpec == Init /\ [][LinNext]_vars

\* The abstract map key -> (value, expiresAt) is lastSet: Set, Delete and
\* Flush update it when they enter their critical section, that is in the
\* order in which they acquire the lock. What a Get of the map returns:
AbsGet(key) ==
    IF lastSet[key] = NoSet THEN Nil
    ELSE IF ~(now < lastSet[key][2]) THEN Nil
    ELSE lastSet[key][1]

\* C14: every Get returns, at the point where it acquires the lock, what the
\* abstract map with the expiry check returns at that point.
C14_Linearizable ==
    [][\A t \in Callers :
          (task[t].pc = "rlock" /\ task'[t].pc = "reading")
            => task'[t].ret = AbsGet(task[t].key)]_vars

(* --------------------------- the heap at size ------------------------- *)
\* The store's calls on heaps of up to MaxHeap slots, which is where an
\* element has two children to sink between. One value is enough here.
HeapSet(key, lifetime) ==
    /\ HeapLen(Store) < MaxHeap
    /\ Becomes(SetStore(Store, key, "v1", lifetime, now))
    /\ lastOp' = Op("Set", key, Nil)
    /\ lastSet' = [lastSet EXCEPT ![key] = <<"v1", now + lifetime>>]
    /\ UNCHANGED <<now, cleanups>>
    /\ UNCHANGED schedVars
    /\ UNCHANGED otherVars

HeapNext ==
    \/ \E key \in Keys, lifetime \in Lifetimes : HeapSet(key, lifetime)
    \/ \E key \in Keys : Delete(key)
    \/ GC
    \/ Advance

HeapSpec == Init /\ [][HeapNext]_vars

\* Every slot but the root expires no earlier than its parent.
MinHeap(st) ==
    \A i \in 1..(HeapLen(st) - 1) :
        At(st, (i - 1) \div 2).expiredAt <= At(st, i).expiredAt

\* C15: after every call the heap is a min-heap on expiredAt.
C15_HeapOrdered == MinHeap(Store)

\* A Delete has left a heap of four or more slots with three or more
\* different expiry times.
C15_Witness ==
    /\ lastOp.op = "Delete"
    /\ HeapLen(Store) >= 4
    /\ Cardinality({At(Store, i).expiredAt : i \in 0..(HeapLen(Store) - 1)}) >= 3

\* The pointers that come out when slot 0 is read and removed until the heap
\* is empty.
RECURSIVE Drain(_)
Drain(st) ==
    IF HeapLen(st) = 0 \/ st.panicked THEN <<>>
    ELSE <<st.heap[1]>> \o Drain(heapRemove(st, At(st, 0).index))

\* C16: reading slot 0 and removing it until the heap is empty yields the
\* items in non-decreasing expiredAt order, each item of the heap once.
C16_DrainSorted ==
    LET d == Drain(Store)
    IN  /\ Len(d) = HeapLen(Store)
        /\ \A p \in 1..HeapLen(Store) :
             Cardinality({q \in 1..Len(d) : d[q] = heap[p]}) = 1
        /\ \A q \in 1..(Len(d) - 1) :
             items[d[q]].expiredAt <= items[d[q + 1]].expiredAt

\* A Set has left a heap of four or more slots in which two items expire at
\* the same time and two at different times.
C16_Witness ==
    /\ lastOp.op = "Set"
    /\ HeapLen(Store) >= 4
    /\ \E i, j \in 0..(HeapLen(Store) - 1) :
         i # j /\ At(Store, i).expiredAt = At(Store, j).expiredAt
    /\ \E i, j \in 0..(HeapLen(Store) - 1) :
         At(Store, i).expiredAt # At(Store, j).expiredAt

(* ------------------ more claims on the calls one by one --------------- *)
\* C17: once a Get has found the entry of k expired, the cleanup it spawned
\* removes the entry physically: after the cleanup has run on the expired
\* entry, no slot of the heap and no index entry is left for k (so that a GC
\* run afterwards does not come across k).
C17_CleanupRemovesEntry ==
    [][\A k \in Keys :
          (/\ lastOp' = Op("cleanup", k, Nil)
           /\ index[k] # NoItem
           /\ Expired(Entry(k), now))
            => (/\ index'[k] = NoItem
                /\ \A p \in 1..Len(heap') : items'[heap'[p]].key # k)]_vars

\* C18: no call of the in-memory store fails. Set, Delete, Flush, GC (with
\* a context that is done or not) and the spawned Delete return nil, and
\* none of them indexes the heap out of range, in every reachable state: the
\* error a scheduler gets from this store's GC, and hands to the failure
\* sink only if it is not nil, is always nil.
C18_NoCallFails ==
    /\ ~panicked
    /\ lastOp.op \in {"Set", "Delete", "Flush", "GC", "cleanup"} => lastOp.ret = Nil

\* GC has returned nil after the clock moved and left items in the heap,
\* while a cleanup is pending for a key the index no longer holds.
C18_Witness ==
    /\ lastOp.op = "GC"
    /\ lastOp.ret = Nil
    /\ now >= 1
    /\ HeapLen(Store) >= 1
    /\ \E k \in Keys : index[k] = NoItem /\ cleanups[k] > 0

(* ------------------------- Cacher and its options --------------------- *)
Second == 10         \* time.Second, durations being tenths of a second
FiveMinutes == 5 * 60 * Second

\* The GCInterval values a caller configures: negative, zero, below and
\* above one second, and around five minutes.
Intervals ==
    ((0 - MaxInterval)..MaxInterval) \cup {FiveMinutes - 1, FiveMinutes, FiveMinutes + 1}

\* parseOptions that replaces the interval only when it is unset.
parseOptionsUnset(o) ==
    [o EXCEPT !.Initer = IF @ = Nil THEN "MemoryIniter" ELSE @,
              !.GCInterval = IF @ = 0 THEN FiveMinutes ELSE @,
              !.ErrorFunc = IF @ = Nil THEN "discard" ELSE @]

\* d.Seconds() < 1 is d < time.Second.
parseOptions(o) ==
    [o EXCEPT !.Initer = IF @ = Nil THEN "MemoryIniter" ELSE @,
              !.GCInterval = IF @ < Second THEN FiveMinutes ELSE @,
              !.ErrorFunc = IF @ = Nil THEN "discard" ELSE @]

\* Cacher(opts ...Options): opt = opts[0] for any options the caller gives.
CacherInit ==
    /\ storeInit /\ schedInit /\ concInit /\ fileInit /\ sqlInit
    /\ ghostInit
    /\ \E initer \in {Nil, "FileIniter"}, interval \in Intervals,
          errorFunc \in {Nil, "errorFunc"} :
         opts = [arg |-> Options(initer, interval, errorFunc),
                 opt |-> Options(initer, interval, errorFunc),
                 parsed |-> FALSE]

\* opt = parseOptions(opt)
ParseOptions ==
    /\ ~opts.parsed
    /\ opts' = [opts EXCEPT !.opt = parseOptions(opts.opt), !.parsed = TRUE]
    /\ UNCHANGED <<task, rw, cl, files, rootDir, fcleanups, rows, gcLast>>
    /\ UNCHANGED storeVars
    /\ UNCHANGED schedVars

\* mgr.startGC(ctx, opt.GCInterval, opt.ErrorFunc): the goroutine starts with
\* a ticker of opt.GCInterval.
CacherStartGC ==
    /\ opts.parsed
    /\ SchedStart

CacherNext == ParseOptions \/ CacherStartGC

CacherSpec == CacherInit /\ [][CacherNext]_vars

\* C19: the interval the Cacher hands to the scheduler is never below one
\* second: an unset (zero) GCInterval becomes five minutes, one of a second
\* or more stays as configured and no configured value leaves less than a
\* second; an unset ErrorFunc becomes the sink that discards. The scheduler
\* starts only with parsed options.
C19_IntervalFloor ==
    /\ opts.parsed =>
         /\ opts.opt.GCInterval >= Second
         /\ opts.arg.GCInterval = 0 => opts.opt.GCInterval = FiveMinutes
         /\ opts.arg.GCInterval >= Second => opts.opt.GCInterval = opts.arg.GCInterval
         /\ opts.arg.ErrorFunc = Nil => opts.opt.ErrorFunc = "discard"
         /\ opts.arg.ErrorFunc # Nil => opts.opt.ErrorFunc = opts.arg.ErrorFunc
    /\ pc # "start" => opts.parsed

\* The scheduler was started from options configured with half a second and
\* no ErrorFunc.
C19_Witness ==
    /\ pc = "gc"
    /\ opts.parsed
    /\ opts.arg.GCInterval > 0
    /\ opts.arg.GCInterval < Second
    /\ opts.arg.ErrorFunc = Nil
    /\ opts.opt.GCInterval = FiveMinutes

(* ------------------------------ the file store ------------------------ *)
ErrNotExist == "os.ErrNotExist"
ErrRemove == "remove: no such file"     \* *PathError of os.Remove
ErrWalk == "lstat: no such file"        \* *PathError WalkDir hands to its callback
ErrDecode == "decode: unexpected EOF"   \* errors.Wrap(err, "decode")
ErrEncode == "encode: unsupported type" \* errors.Wrap(err, "encode")

\* A value the encoder refuses (gob has no encoding for a channel).
Unencodable == "chan"

\* Bytes the decoder refuses, and bytes it decodes to something that is not
\* the store's item.
Garbage == <<"garbage">>
Foreign == <<"gob", "other">>

\* A fileItem, and what the gob encoder writes and the decoder reads back.
fileItem(value, expiredAt) == [Value |-> value, ExpiredAt |-> expiredAt]

GobEncode(item) == <<"gob", item.Value, item.ExpiredAt>>

GobEncodeErr(value) == IF value = Unencodable THEN ErrEncode ELSE Nil

GobDecode(binary) == [Value |-> binary[2], ExpiredAt |-> binary[3]]

GobDecodeErr(binary) == IF binary[1] = "gob" THEN Nil ELSE ErrDecode

\* The file store as one value: the files under the root, and the root.
FileStore == [files |-> files, rootDir |-> rootDir]

\* isFile(s.filename(key))
isFile(fs, key) == fs.files[key] # NoFile

\* s.read(filename) of a file that exists and decodes.
read(fs, key) == GobDecode(fs.files[key])

\* The error of s.read(filename) of a file that exists: the decoder's,
\* wrapped, or os.ErrNotExist for a decoded value that is not a *fileItem.
readErr(fs, key) ==
    IF GobDecodeErr(fs.files[key]) # Nil THEN GobDecodeErr(fs.files[key])
    ELSE IF Len(fs.files[key]) # 3 THEN ErrNotExist
    ELSE Nil

\* An item that is still served at the instant of its expiry.
FileExpiredBefore(item, t) == item.ExpiredAt < t

\* !item.ExpiredAt.After(s.nowFunc())
FileExpired(item, t) == ~(item.ExpiredAt > t)

\* The value and the error fileStore.Get returns.
FileGetResult(fs, key, t) ==
    IF ~isFile(fs, key) THEN [value |-> Nil, err |-> ErrNotExist]
    ELSE IF readErr(fs, key) # Nil THEN [value |-> Nil, err |-> readErr(fs, key)]
    ELSE IF FileExpired(read(fs, key), t) THEN [value |-> Nil, err |-> ErrNotExist]
    ELSE [value |-> read(fs, key).Value, err |-> Nil]

FileGetSpawns(fs, key, t) ==
    /\ isFile(fs, key)
    /\ readErr(fs, key) = Nil
    /\ FileExpired(read(fs, key), t)

\* A Set that creates the directory and truncates the file before it finds
\* that the value does not encode.
FileSetStoreTruncates(fs, key, value, lifetime, t) ==
    IF GobEncodeErr(value) # Nil
    THEN [files |-> [fs.files EXCEPT ![key] = Garbage], rootDir |-> TRUE]
    ELSE [files |-> [fs.files EXCEPT ![key] = GobEncode(fileItem(value, t + lifetime))],
          rootDir |-> TRUE]

\* Set: encode and return on its error, then MkdirAll, WriteFile.
FileSetStore(fs, key, value, lifetime, t) ==
    IF GobEncodeErr(value) # Nil THEN fs
    ELSE [files |-> [fs.files EXCEPT ![key] = GobEncode(fileItem(value, t + lifetime))],
          rootDir |-> TRUE]

FileSetErr(value) == GobEncodeErr(value)

\* Delete is os.Remove of the key's file.
FileDeleteStore(fs, key) == [fs EXCEPT !.files[key] = NoFile]

FileDeleteErr(fs, key) == IF isFile(fs, key) THEN Nil ELSE ErrRemove

\* Flush is os.RemoveAll of the root.
FileFlushStore(fs) == [files |-> [k \in Keys |-> NoFile], rootDir |-> FALSE]

\* The order in which WalkDir meets the files of the keys: the lexical
\* order of the paths s.filename(key) gives them.
WalkOrder == <<"k1", "k2">>

\* A walk that passes over a file it cannot read and goes on.
RECURSIVE FileGCWalkSkips(_, _, _)
FileGCWalkSkips(fs, t, i) ==
    IF i > Len(WalkOrder) THEN [fs |-> fs, err |-> Nil]
    ELSE IF ~isFile(fs, WalkOrder[i]) THEN FileGCWalkSkips(fs, t, i + 1)
    ELSE IF readErr(fs, WalkOrder[i]) # Nil THEN FileGCWalkSkips(fs, t, i + 1)
    ELSE IF FileExpired(read(fs, WalkOrder[i]), t)
         THEN FileGCWalkSkips([fs EXCEPT !.files[WalkOrder[i]] = NoFile], t, i + 1)
    ELSE FileGCWalkSkips(fs, t, i + 1)

\* The callback of WalkDir from the i-th file on: a file that cannot be read
\* ends the walk with the error of read, an expired one is removed, any
\* other is kept.
RECURSIVE FileGCWalk(_, _, _)
FileGCWalk(fs, t, i) ==
    IF i > Len(WalkOrder) THEN [fs |-> fs, err |-> Nil]
    ELSE IF ~isFile(fs, WalkOrder[i]) THEN FileGCWalk(fs, t, i + 1)
    ELSE IF readErr(fs, WalkOrder[i]) # Nil
         THEN [fs |-> fs, err |-> readErr(fs, WalkOrder[i])]
    ELSE IF FileExpired(read(fs, WalkOrder[i]), t)
         THEN FileGCWalk([fs EXCEPT !.files[WalkOrder[i]] = NoFile], t, i + 1)
    ELSE FileGCWalk(fs, t, i + 1)

\* GC with a context that is not done: WalkDir removes every file whose item
\* is expired. On a root that does not exist the callback gets the error of
\* the walk and GC returns it.
FileGCStore(fs, t) ==
    IF ~fs.rootDir THEN fs ELSE FileGCWalk(fs, t, 1).fs

FileGCErr(fs, t) ==
    IF ~fs.rootDir THEN ErrWalk ELSE FileGCWalk(fs, t, 1).err

FileBecomes(fs) ==
    /\ files' = fs.files
    /\ rootDir' = fs.rootDir

FileSet(key, value, lifetime) ==
    /\ FileBecomes(FileSetStore(FileStore, key, value, lifetime, now))
    /\ lastOp' = Op("FileSet", key, FileSetErr(value))
    /\ lastSet' = IF FileSetErr(value) # Nil THEN lastSet
                  ELSE [lastSet EXCEPT ![key] = <<value, now + lifetime>>]
    /\ UNCHANGED <<now, heap, items, index, cleanups, panicked>>
    /\ UNCHANGED <<task, rw, cl, opts, gcLast, rows, fcleanups>>
    /\ UNCHANGED schedVars

FileGet(key) ==
    /\ FileGetSpawns(FileStore, key, now) => fcleanups[key] < MaxPending
    /\ fcleanups' = IF FileGetSpawns(FileStore, key, now)
                    THEN [fcleanups EXCEPT ![key] = @ + 1]
                    ELSE fcleanups
    /\ lastOp' = Op("FileGet", key,
                    IF FileGetResult(FileStore, key, now).err = Nil
                    THEN FileGetResult(FileStore, key, now).value
                    ELSE FileGetResult(FileStore, key, now).err)
    /\ UNCHANGED <<now, heap, items, index, cleanups, panicked, lastSet>>
    /\ UNCHANGED <<task, rw, cl, opts, gcLast, rows, files, rootDir>>
    /\ UNCHANGED schedVars

FileDelete(key) ==
    /\ FileBecomes(FileDeleteStore(FileStore, key))
    /\ lastOp' = Op("FileDelete", key, FileDeleteErr(FileStore, key))
    /\ lastSet' = [lastSet EXCEPT ![key] = NoSet]
    /\ UNCHANGED <<now, heap, items, index, cleanups, panicked>>
    /\ UNCHANGED <<task, rw, cl, opts, gcLast, rows, fcleanups>>
    /\ UNCHANGED schedVars

\* The goroutine spawned by Get: go func() { _ = s.Delete(ctx, key) }().
FileCleanup(key) ==
    /\ fcleanups[key] > 0
    /\ fcleanups' = [fcleanups EXCEPT ![key] = @ - 1]
    /\ FileBecomes(FileDeleteStore(FileStore, key))
    /\ lastOp' = Op("FileCleanup", key, Nil)
    /\ UNCHANGED <<now, heap, items, index, cleanups, panicked, lastSet>>
    /\ UNCHANGED <<task, rw, cl, opts, gcLast, rows>>
    /\ UNCHANGED schedVars

FileFlush ==
    /\ FileBecomes(FileFlushStore(FileStore))
    /\ lastOp' = Op("FileFlush", "", Nil)
    /\ lastSet' = [k \in Keys |-> NoSet]
    /\ UNCHANGED <<now, heap, items, index, cleanups, panicked>>
    /\ UNCHANGED <<task, rw, cl, opts, gcLast, rows, fcleanups>>
    /\ UNCHANGED schedVars

FileGC ==
    /\ FileBecomes(FileGCStore(FileStore, now))
    /\ lastOp' = Op("FileGC", "", FileGCErr(FileStore, now))
    /\ UNCHANGED <<now, heap, items, index, cleanups, panicked, lastSet>>
    /\ UNCHANGED <<task, rw, cl, opts, gcLast, rows, fcleanups>>
    /\ UNCHANGED schedVars

FileNext ==
    \/ \E k \in Keys, v \in Values, l \in Lifetimes : FileSet(k, v, l)
    \/ \E k \in Keys : FileGet(k)
    \/ \E k \in Keys : FileDelete(k)
    \/ \E k \in Keys : FileCleanup(k)
    \/ FileFlush
    \/ FileGC
    \/ Advance

FileSpec == Init /\ [][FileNext]_vars

\* C20: when GC has run at clock now, a key whose file held ExpiredAt <= now
\* has no file left and Get returns os.ErrNotExist for it; a key whose file
\* holds ExpiredAt > now keeps its file and Get returns the value that was
\* set.
C20_FileGC ==
    [][\A k \in Keys :
          (lastOp'.op = "FileGC" /\ files[k] # NoFile) =>
            IF files[k][3] <= now
            THEN /\ files'[k] = NoFile
                 /\ FileGetResult([files |-> files', rootDir |-> rootDir'], k, now')
                      = [value |-> Nil, err |-> ErrNotExist]
            ELSE /\ files'[k] = files[k]
                 /\ lastSet[k] # NoSet
                 /\ FileGetResult([files |-> files', rootDir |-> rootDir'], k, now')
                      = [value |-> lastSet[k][1], err |-> Nil]]_vars

\* GC has returned nil at a clock past the start: one key has no file, the
\* other still has its file, which expires later.
C20_Witness ==
    /\ lastOp = Op("FileGC", "", Nil)
    /\ now >= 1
    /\ \E k \in Keys : files[k] = NoFile /\ fcleanups[k] > 0
    /\ \E k \in Keys : files[k] # NoFile /\ files[k][3] > now

(* -------------------- adapters with failing encoders and decoders ----- *)
\* The bytes of a key's file are replaced from outside the store by bytes
\* that are not an encoded fileItem.
FileCorrupt(key, binary) ==
    /\ isFile(FileStore, key)
    /\ files' = [files EXCEPT ![key] = binary]
    /\ lastOp' = Op("FileCorrupt", key, Nil)
    /\ UNCHANGED <<now, heap, items, index, cleanups, panicked, lastSet>>
    /\ UNCHANGED <<task, rw, cl, opts, gcLast, rows, rootDir, fcleanups>>
    /\ UNCHANGED schedVars

\* The MySQL store: what the encoder writes for item{value}, and a row.
SqlEncode(value) == <<"gob", "item", value>>

Row(data, expiredAt) == [data |-> data, expired_at |-> expiredAt]

\* SELECT data ... WHERE key = ? AND expired_at > ?, decode, v.(*item).
MysqlGetResult(rs, key, t) ==
    IF rs[key] = NoRow \/ ~(rs[key].expired_at > t)
    THEN [value |-> Nil, err |-> ErrNotExist]
    ELSE IF GobDecodeErr(rs[key].data) # Nil
    THEN [value |-> Nil, err |-> GobDecodeErr(rs[key].data)]
    ELSE IF rs[key].data[2] # "item" THEN [value |-> Nil, err |-> ErrNotExist]
    ELSE [value |-> rs[key].data[3], err |-> Nil]

\* Set: encode and return on its error, then INSERT ... ON DUPLICATE KEY
\* UPDATE.
MysqlSetStore(rs, key, value, lifetime, t) ==
    IF GobEncodeErr(value) # Nil THEN rs
    ELSE [rs EXCEPT ![key] = Row(SqlEncode(value), t + lifetime)]

MysqlSetErr(value) == GobEncodeErr(value)

\* DELETE FROM table WHERE key = ?
MysqlDeleteStore(rs, key) == [rs EXCEPT ![key] = NoRow]

\* TRUNCATE TABLE
MysqlFlushStore(rs) == [k \in Keys |-> NoRow]

\* DELETE FROM table WHERE expired_at <= ?
MysqlGCStore(rs, t) ==
    [k \in Keys |-> IF rs[k] # NoRow /\ rs[k].expired_at <= t THEN NoRow ELSE rs[k]]

SqlFrame ==
    /\ UNCHANGED <<now, heap, items, index, cleanups, panicked, lastSet>>
    /\ UNCHANGED <<task, rw, cl, opts, gcLast, files, rootDir, fcleanups>>
    /\ UNCHANGED schedVars

MysqlSet(key, value, lifetime) ==
    /\ rows' = MysqlSetStore(rows, key, value, lifetime, now)
    /\ lastOp' = Op("MysqlSet", key, MysqlSetErr(value))
    /\ SqlFrame

MysqlGet(key) ==
    /\ lastOp' = Op("MysqlGet", key,
                    IF MysqlGetResult(rows, key, now).err = Nil
                    THEN MysqlGetResult(rows, key, now).value
                    ELSE MysqlGetResult(rows, key, now).err)
    /\ UNCHANGED rows
    /\ SqlFrame

MysqlDelete(key) ==
    /\ rows' = MysqlDeleteStore(rows, key)
    /\ lastOp' = Op("MysqlDelete", key, Nil)
    /\ SqlFrame

MysqlFlush ==
    /\ rows' = MysqlFlushStore(rows)
    /\ lastOp' = Op("MysqlFlush", "", Nil)
    /\ SqlFrame

MysqlGC ==
    /\ rows' = MysqlGCStore(rows, now)
    /\ lastOp' = Op("MysqlGC", "", Nil)
    /\ SqlFrame

\* The data of a key's row is replaced from outside the store.
MysqlCorrupt(key, binary) ==
    /\ rows[key] # NoRow
    /\ rows' = [rows EXCEPT ![key].data = binary]
    /\ lastOp' = Op("MysqlCorrupt", key, Nil)
    /\ SqlFrame

\* The callers of the two adapters use one key, values the encoder accepts
\* and one it refuses; files and rows are overwritten with bytes the decoder
\* refuses.
AdapterKeys == {"k1"}

FileFaultNext ==
    \/ \E k \in AdapterKeys, v \in Values \cup {Unencodable}, l \in Lifetimes :
          FileSet(k, v, l)
    \/ \E k \in AdapterKeys : FileGet(k)
    \/ \E k \in AdapterKeys : FileDelete(k)
    \/ \E k \in AdapterKeys : FileCleanup(k)
    \/ FileFlush
    \/ FileGC
    \/ \E k \in AdapterKeys, b \in {Garbage, Foreign} : FileCorrupt(k, b)

MysqlNext ==
    \/ \E k \in AdapterKeys, v \in Values \cup {Unencodable}, l \in Lifetimes :
          MysqlSet(k, v, l)
    \/ \E k \in AdapterKeys : MysqlGet(k)
    \/ \E k \in AdapterKeys : MysqlDelete(k)
    \/ MysqlFlush
    \/ MysqlGC
    \/ \E k \in AdapterKeys, b \in {Garbage, Foreign} : MysqlCorrupt(k, b)

\* Both adapters side by side.
AdapterNext == FileFaultNext \/ MysqlNext \/ Advance

AdapterSpec == Init /\ [][AdapterNext]_vars

\* C21: Delete of a key that has no file (never set, already deleted, or
\* removed by GC or by the cleanup of an expired Get) returns nil and
\* changes nothing.
C21_FileDeleteIdempotent ==
    [][\A k \in Keys :
          (FileDelete(k) /\ ~isFile(FileStore, k)) =>
            /\ lastOp'.ret = Nil
            /\ files' = files
            /\ rootDir' = rootDir]_vars

\* C22: Get of a key whose stored bytes the decoder refuses returns what it
\* returns for an absent key, os.ErrNotExist, in the file store and in the
\* MySQL store.
C22_DecodeFailureAbsent ==
    [][\A k \in AdapterKeys :
          /\ (FileGet(k) /\ isFile(FileStore, k) /\ GobDecodeErr(files[k]) # Nil)
               => lastOp'.ret = ErrNotExist
          /\ (MysqlGet(k) /\ rows[k] # NoRow /\ GobDecodeErr(rows[k].data) # Nil)
               => lastOp'.ret = ErrNotExist]_vars

\* C23: right after Flush, Get of any key returns os.ErrNotExist, and GC
\* returns nil and removes nothing.
C23_FlushThenGC ==
    [][lastOp.op = "FileFlush" =>
          /\ \A k \in Keys : FileGet(k) => lastOp'.ret = ErrNotExist
          /\ FileGC => (lastOp'.ret = Nil /\ files' = files)]_vars

\* C24: a Set whose value the encoder refuses returns the encoder's error,
\* writes no file and no row, and leaves Get of the key returning what it
\* returned before, in the file store and in the MySQL store.
C24_EncodeFailure ==
    [][\A k \in AdapterKeys, l \in Lifetimes :
          /\ FileSet(k, Unencodable, l) =>
               /\ lastOp'.ret = ErrEncode
               /\ files' = files
               /\ rootDir' = rootDir
               /\ FileGetResult([files |-> files', rootDir |-> rootDir'], k, now')
                    = FileGetResult(FileStore, k, now)
          /\ MysqlSet(k, Unencodable, l) =>
               /\ lastOp'.ret = ErrEncode
               /\ rows' = rows
               /\ MysqlGetResult(rows', k, now') = MysqlGetResult(rows, k, now)]_vars

\* A Set of a value the encoder refuses has failed on a key whose file holds
\* a live value, while the key's row holds a live value too.
C24_Witness ==
    /\ lastOp = Op("FileSet", "k1", ErrEncode)
    /\ FileGetResult(FileStore, "k1", now).err = Nil
    /\ FileGetResult(FileStore, "k1", now).value \in Values
    /\ MysqlGetResult(rows, "k1", now).err = Nil
    /\ MysqlGetResult(rows, "k1", now).value \in Values

(* ------------------------------ what GC returns ----------------------- *)
\* The results of memoryStore.GC, by name: the signature is GC(ctx) error,
\* and every return statement of the function returns nil.
GCReturn == [err |-> Nil]

\* C25: GC returns the number of entries it removed, which is the number of
\* slots with expiredAt <= now at the call (zero on an empty store, as after
\* Flush).
C25_ReclaimCount ==
    [][GC =>
          /\ "count" \in DOMAIN GCReturn
          /\ GCReturn.count
               = Cardinality({p \in 1..Len(heap) : Expired(items[heap[p]], now)})]_vars

(* ------------------------------ the order of GC's removals ------------ *)
\* Set takes any time.Duration: the callers here also pass a negative one.
SignedLifetimes == {-1, 1}

\* One iteration of GC records the expiry of the slot it removes and whether
\* it is the first removal of the call; the record is dropped when the call
\* returns.
OrderEnter(t) ==
    /\ EnterWith(t, SignedLifetimes)
    /\ gcLast' =
         IF task[t].op # "GC" THEN gcLast
         ELSE IF GCStep(Store, now).done THEN [gcLast EXCEPT ![t] = NoRemoval]
         ELSE [gcLast EXCEPT ![t] = <<At(Store, 0).expiredAt,
                                      IF gcLast[t] = NoRemoval THEN 1 ELSE 2>>]

OrderGCDone(t) ==
    /\ GCReturns(t)
    /\ gcLast' = [gcLast EXCEPT ![t] = NoRemoval]

OrderNext ==
    \/ \E t \in Callers, op \in ConcOps, key \in ConcKeys \cup {""} : Call(t, op, key)
    \/ \E t \in Callers : RLock(t)
    \/ \E t \in Callers : RUnlock(t)
    \/ \E t \in Callers : Lock(t)
    \/ \E t \in Callers : OrderEnter(t)
    \/ \E t \in Callers : Unlock(t)
    \/ \E t \in Callers : OrderGCDone(t)
    \/ \E key \in ConcKeys : CleanLock(key)
    \/ \E key \in ConcKeys : CleanEnter(key)
    \/ \E key \in ConcKeys : CleanUnlock(key)
    \/ Advance

OrderSpec == Init /\ [][OrderNext]_vars

\* The store after the step.
StoreNext == [heap |-> heap', items |-> items', index |-> index', panicked |-> panicked']

\* The triple in the root slot.
RootSlot == Slots(Store)[1]

\* An iteration of GC, run by caller t in its critical section, leaves every
\* slot in place.
GCKeepsAll(t) ==
    /\ Slots(StoreNext) = Slots(Store)
    /\ index' = index
    /\ task'[t].ret = "done"

\* An iteration of GC removes one slot, the one that was the root, and no
\* other.
GCRemovesRoot(t) ==
    /\ HeapLen(StoreNext) = HeapLen(Store) - 1
    /\ Count(StoreNext, RootSlot) = Count(Store, RootSlot) - 1
    /\ \A p \in 1..Len(heap) :
          Slots(Store)[p] # RootSlot =>
            Count(StoreNext, Slots(Store)[p]) = Count(Store, Slots(Store)[p])
    /\ task'[t].ret = "more"

\* What an iteration of GC does, whatever ran between it and the one before:
\* on an empty heap or a root that expires after now it removes nothing and
\* the call ends; otherwise it removes the root and only the root.
GCIteration(t) ==
    (task[t].pc = "drain" /\ task[t].op = "GC" /\ task'[t].pc = "writing") =>
      IF HeapLen(Store) = 0 THEN GCKeepsAll(t)
      ELSE IF At(Store, 0).expiredAt > now THEN GCKeepsAll(t)
      ELSE GCRemovesRoot(t)

C27_IndexIsSlot ==
    /\ ~panicked
    /\ \A i \in 0..(HeapLen(Store) - 1) : At(Store, i).index = i
    /\ \A k \in Keys :
          index[k] # NoItem =>
            /\ items[index[k]].index \in 0..(HeapLen(Store) - 1)
            /\ heap[items[index[k]].index + 1] = index[k]
            /\ items[index[k]].key = k

\* Delete has removed a slot of a heap of three: two slots are left, and the
\* index still holds a key whose item is not in the root slot.
C27_Witness ==
    /\ lastOp.op = "Delete"
    /\ HeapLen(Store) = 2
    /\ \E k \in Keys : index[k] # NoItem /\ items[index[k]].index = 1

(* ------------------- one expiry rule for Get and for GC --------------- *)
\* The memory store and the file store side by side, each with its Set, Get,
\* the cleanup Get spawns, and GC, under one clock.
PairNext ==
    \/ \E k \in Keys, l \in Lifetimes : HeapLen(Store) < MaxPairLen /\ Set(k, "v1", l)
    \/ \E k \in Keys : Get(k)
    \/ \E k \in Keys : Cleanup(k)
    \/ GC
    \/ \E k \in AdapterKeys, l \in Lifetimes : FileSet(k, "v1", l)
    \/ \E k \in AdapterKeys : FileGet(k)
    \/ \E k \in AdapterKeys : FileCleanup(k)
    \/ FileGC
    \/ Advance

PairSpec == Init /\ [][PairNext]_vars

\* The triple of the item the index holds for key.
EntrySlot(key) == <<Entry(key).key, Entry(key).value, Entry(key).expiredAt>>

\* C28: Get and GC agree on when an entry is expired, the boundary included.
\* For the entry of a key in the memory store and for the file of a key in
\* the file store: if expiredAt <= now then Get returns no value and a GC
\* at this clock value removes the entry; if expiredAt > now then Get returns
\* the value and a GC at this clock value keeps the entry. So Get never
\* returns a value that a GC at the same clock value would remove.
C28_SameExpiryRule ==
    /\ \A k \in Keys :
          index[k] # NoItem =>
            IF Entry(k).expiredAt <= now
            THEN /\ GetValue(Store, k, now) = Nil
                 /\ Count(GCStore(Store, now, HeapLen(Store) + 1), EntrySlot(k)) = 0
            ELSE /\ GetValue(Store, k, now) = Entry(k).value
                 /\ Count(GCStore(Store, now, HeapLen(Store) + 1), EntrySlot(k))
                      = Count(Store, EntrySlot(k))
    /\ \A k \in Keys :
          isFile(FileStore, k) =>
            IF read(FileStore, k).ExpiredAt <= now
            THEN /\ FileGetResult(FileStore, k, now) = [value |-> Nil, err |-> ErrNotExist]
                 /\ FileGCStore(FileStore, now).files[k] = NoFile
            ELSE /\ FileGetResult(FileStore, k, now)
                      = [value |-> read(FileStore, k).Value, err |-> Nil]
                 /\ FileGCStore(FileStore, now).files[k] = files[k]

\* The clock stands at the expiry of an entry of the memory store and of a
\* file of the file store, while another entry of the memory store expires
\* later; a Get has just found the file expired.
C28_Witness ==
    /\ \E k \in Keys : index[k] # NoItem /\ Entry(k).expiredAt = now
    /\ \E k \in Keys : index[k] # NoItem /\ Entry(k).expiredAt > now
    /\ \E k \in Keys : isFile(FileStore, k) /\ read(FileStore, k).ExpiredAt = now
    /\ lastOp.op = "FileGet"
    /\ lastOp.ret = ErrNotExist

(* ------------------------------ stop and the cycle -------------------- *)
\* C29: the goroutine takes the stop signal only at its select, between two
\* GC calls. The send completes only in a step that finds the loop at the
\* select and ends it; the loop ends in no other way; and a GC call in
\* flight returns to the loop and is counted, whether a stop is pending or
\* not, leaving the sender as it was.
C29_StopBetweenCycles ==
    [][/\ (stopper = "sending" /\ stopper' # "sending") =>
            (pc = "select" /\ pc' = "done" /\ stopper' = "sent")
       /\ (pc # "done" /\ pc' = "done") =>
            (pc = "select" /\ stopper = "sending" /\ stopper' = "sent")
       /\ (pc = "gc" /\ pc' # "gc") =>
            (pc' = "err" /\ gcCalls' = gcCalls + 1 /\ stopper' = stopper)]_vars

\* The stop was sent while a GC call was in flight; the call returned with
\* an error, errFunc was called, and then the loop took the signal and ended.
C29_Witness ==
    /\ pc = "done"
    /\ stopper = "sent"
    /\ gcSinceStop >= 1
    /\ gcErr # Nil
    /\ sinkCalls >= 1

(* ------------------------------ what a call leaves alone -------------- *)
\* C30: a Get that returns a value, and a Get of a key the index does not
\* hold, change neither the heap, the index nor the pending cleanups; a
\* Set or Delete of key k leaves what Get returns for every other key as it
\* was.
C30_Frame ==
    [][/\ (/\ lastOp'.op = "Get"
           /\ (lastOp'.ret # Nil \/ index[lastOp'.key] = NoItem)) =>
            /\ heap' = heap
            /\ items' = items
            /\ index' = index
            /\ cleanups' = cleanups
       /\ lastOp'.op \in {"Set", "Delete"} =>
            \A other \in Keys \ {lastOp'.key} :
                GetValue(StoreNext, other, now') = GetValue(Store, other, now)]_vars

\* Get has returned the value of a key from a heap of three slots in which
\* the other key has a live entry too, with no cleanup pending.
C30_Witness ==
    /\ lastOp.op = "Get"
    /\ lastOp.ret \in Values
    /\ HeapLen(Store) = 3
    /\ \A k \in Keys : GetValue(Store, k, now) # Nil /\ cleanups[k] = 0

(* ------------------------------ GC comes to an end -------------------- *)
\* The slots of the heap that are expired at the clock value t.
ExpiredSlots(st, t) == {p \in 1..Len(st.heap) : st.items[st.heap[p]].expiredAt <= t}

\* C31: GC called in any state, with the clock standing still and no other
\* call in between: every iteration of its loop either ends the loop and
\* changes nothing or removes exactly one slot, and after at most Len()
\* removing iterations (Len() taken at the start) the next iteration ends
\* the loop.
C31_GCTerminates ==
    /\ \A n \in 0..HeapLen(Store) :
          IF GCStep(GCStore(Store, now, n), now).done
          THEN GCStep(GCStore(Store, now, n), now).st = GCStore(Store, now, n)
          ELSE HeapLen(GCStep(GCStore(Store, now, n), now).st)
                 = HeapLen(GCStore(Store, now, n)) - 1
    /\ GCStep(GCStore(Store, now, HeapLen(Store)), now).done

\* A heap of five slots of which at least three are expired and one is not:
\* a GC called here goes round its loop at least four times.
C31_Witness ==
    /\ HeapLen(Store) = 5
    /\ Cardinality(ExpiredSlots(Store, now)) >= 3
    /\ Cardinality(ExpiredSlots(Store, now)) < 5
    /\ ~GCStep(GCStore(Store, now, 2), now).done

(* ------------------------------ GC and a done context ----------------- *)
\* The callback of WalkDir from the i-th file on, with a context that is done
\* once the callback has been called for `budget` files: the callback then
\* returns ctx.Err(), which ends the walk and which GC turns into nil.
RECURSIVE FileGCWalkCtx(_, _, _, _)
FileGCWalkCtx(fs, t, i, budget) ==
    IF i > Len(WalkOrder) THEN [fs |-> fs, err |-> Nil]
    ELSE IF ~isFile(fs, WalkOrder[i]) THEN FileGCWalkCtx(fs, t, i + 1, budget)
    ELSE IF budget = 0 THEN [fs |-> fs, err |-> Nil]
    ELSE IF readErr(fs, WalkOrder[i]) # Nil
         THEN [fs |-> fs, err |-> readErr(fs, WalkOrder[i])]
    ELSE IF FileExpired(read(fs, WalkOrder[i]), t)
         THEN FileGCWalkCtx([fs EXCEPT !.files[WalkOrder[i]] = NoFile], t, i + 1, budget - 1)
    ELSE FileGCWalkCtx(fs, t, i + 1, budget - 1)

\* GC with such a context. The callback tests ctx.Done() before the error of
\* the walk: on a root that does not exist a context that is done already
\* gives nil, one that is not gives the error of the walk.
FileGCCtxStore(fs, t, budget) ==
    IF ~fs.rootDir THEN fs ELSE FileGCWalkCtx(fs, t, 1, budget).fs

FileGCCtxErr(fs, t, budget) ==
    IF ~fs.rootDir THEN (IF budget = 0 THEN Nil ELSE ErrWalk)
    ELSE FileGCWalkCtx(fs, t, 1, budget).err

\* The context becomes done while the walk is on: after the callback has
\* been called for `budget` of the files there are.
FileGCCancelled(budget) ==
    /\ budget <= Cardinality({k \in Keys : isFile(FileStore, k)})
    /\ FileBecomes(FileGCCtxStore(FileStore, now, budget))
    /\ lastOp' = Op("FileGC", "ctx.Done", FileGCCtxErr(FileStore, now, budget))
    /\ UNCHANGED <<now, heap, items, index, cleanups, panicked, lastSet>>
    /\ UNCHANGED <<task, rw, cl, opts, gcLast, rows, fcleanups>>
    /\ UNCHANGED schedVars

\* Both stores with Set, GC, and GC under a context that is done from the
\* start or becomes done on the way.
CancelNext ==
    \/ \E k \in AdapterKeys, l \in Lifetimes : HeapLen(Store) < MaxPairLen /\ Set(k, "v1", l)
    \/ GC
    \/ \E b \in 0..HeapLen(Store) : GCCancelled(b)
    \/ \E k \in Keys, l \in Lifetimes : FileSet(k, "v1", l)
    \/ FileGC
    \/ \E b \in 0..Cardinality(Keys) : FileGCCancelled(b)
    \/ Advance

CancelSpec == Init /\ [][CancelNext]_vars

\* The keys of the first n files the walk meets.
RECURSIVE FirstFiles(_, _, _)
FirstFiles(fs, i, n) ==
    IF i > Len(WalkOrder) \/ n = 0 THEN {}
    ELSE IF ~isFile(fs, WalkOrder[i]) THEN FirstFiles(fs, i + 1, n)
    ELSE {WalkOrder[i]} \cup FirstFiles(fs, i + 1, n - 1)

\* The smaller of two numbers.
Min(a, b) == IF a <= b THEN a ELSE b

\* C32: a GC whose context is done at the call removes nothing and returns
\* nil, in the memory store and in the file store. A GC whose context
\* becomes done after b iterations (memory) or b files (file store) has
\* removed the expired entries it came to before that and no other, leaves
\* the remaining expired entries in place, and returns nil.
C32_CancelledGC ==
    [][/\ GCCancelled(0) => (heap' = heap /\ items' = items /\ index' = index)
       /\ \A b \in 0..HeapLen(Store) :
            GCCancelled(b) =>
              /\ lastOp'.ret = Nil
              /\ HeapLen(StoreNext)
                   = HeapLen(Store) - Min(b, Cardinality(ExpiredSlots(Store, now)))
              /\ Cardinality(ExpiredSlots(StoreNext, now))
                   = Cardinality(ExpiredSlots(Store, now))
                       - Min(b, Cardinality(ExpiredSlots(Store, now)))
       /\ FileGCCancelled(0) => (files' = files /\ rootDir' = rootDir)
       /\ \A b \in 0..Cardinality(Keys) :
            FileGCCancelled(b) =>
              /\ lastOp'.ret = Nil
              /\ rootDir' = rootDir
              /\ \A k \in Keys :
                    files'[k] = IF /\ k \in FirstFiles(FileStore, 1, b)
                                   /\ read(FileStore, k).ExpiredAt <= now
                                THEN NoFile ELSE files[k]]_vars

\* A GC of the file store whose context was done before the walk was through
\* has returned nil: one key has no file and an expired file is still in
\* place; the memory store holds two expired slots.
C32_Witness ==
    /\ lastOp = Op("FileGC", "ctx.Done", Nil)
    /\ \E k \in Keys : files[k] = NoFile
    /\ \E k \in Keys : isFile(FileStore, k) /\ read(FileStore, k).ExpiredAt <= now
    /\ Cardinality(ExpiredSlots(Store, now)) = 2

(* ------------------- the scheduler over a file store that fails ------- *)
\* err := m.store.GC(ctx) with the file store behind the Cache interface.
SchedFileGC ==
    /\ pc = "gc"
    /\ FileBecomes(FileGCStore(FileStore, now))
    /\ gcErr' = FileGCErr(FileStore, now)
    /\ gcCalls' = gcCalls + 1
    /\ gcFailed' = IF FileGCErr(FileStore, now) # Nil THEN gcFailed + 1 ELSE gcFailed
    /\ gcSinceStop' = IF stopper = "sending" THEN gcSinceStop + 1 ELSE gcSinceStop
    /\ pc' = "err"
    /\ lastOp' = Op("FileGC", "", FileGCErr(FileStore, now))
    /\ UNCHANGED <<stopper, tickC, sinkCalls, ticksRecv>>
    /\ UNCHANGED <<now, heap, items, index, cleanups, panicked, lastSet>>
    /\ UNCHANGED <<task, rw, cl, opts, gcLast, rows, fcleanups>>

WalkNext ==
    \/ SchedStart
    \/ SchedFileGC
    \/ SchedErr
    \/ SchedTick
    \/ TickerFire
    \/ \E k \in Keys, l \in Lifetimes : FileSet(k, "v1", l)
    \/ \E k \in Keys, b \in {Garbage, Foreign} : FileCorrupt(k, b)
    \/ Advance

WalkSpec == Init /\ [][WalkNext]_vars

\* The places in the walk order of the files that cannot be read.
Unreadable(fs) ==
    {i \in 1..Len(WalkOrder) : isFile(fs, WalkOrder[i]) /\ readErr(fs, WalkOrder[i]) # Nil}

\* The least number of a set of numbers that is not empty.
Least(S) == CHOOSE i \in S : \A j \in S : i <= j

\* C33: when GC comes to a file it cannot read or decode, it stops there
\* and returns the error of that file: the expired files before it in the
\* walk order are removed, that file and every file after it, expired or
\* not, stay as they are. The scheduler hands the error to errFunc once.
C33_FirstFailure ==
    [][/\ (/\ lastOp'.op = "FileGC" /\ pc = "gc" /\ pc' = "err"
           /\ Unreadable(FileStore) # {}) =>
                 /\ lastOp'.ret = readErr(FileStore, WalkOrder[Least(Unreadable(FileStore))])
                 /\ lastOp'.ret # Nil
                 /\ gcErr' = lastOp'.ret
                 /\ \A i \in 1..Len(WalkOrder) :
                       files'[WalkOrder[i]] =
                         IF /\ i < Least(Unreadable(FileStore))
                            /\ isFile(FileStore, WalkOrder[i])
                            /\ read(FileStore, WalkOrder[i]).ExpiredAt <= now
                         THEN NoFile ELSE files[WalkOrder[i]]
       /\ (pc = "err" /\ pc' # "err") =>
            sinkCalls' = sinkCalls + (IF gcErr # Nil THEN 1 ELSE 0)]_vars

\* The scheduler's GC has stopped at the first file of the walk, which does
\* not decode, and left the expired file after it in place; errFunc has been
\* called with the error.
C33_Witness ==
    /\ pc = "select"
    /\ sinkCalls = 1
    /\ gcErr = ErrDecode
    /\ lastOp = Op("FileGC", "", ErrDecode)
    /\ files[WalkOrder[1]] = Garbage
    /\ isFile(FileStore, WalkOrder[2])
    /\ readErr(FileStore, WalkOrder[2]) = Nil
    /\ read(FileStore, WalkOrder[2]).ExpiredAt <= now

(* ------------------- a store built with MemoryConfig{} ---------------- *)
\* newMemoryStore copies cfg.nowFunc as it is: with MemoryConfig{} the field
\* is nil and every s.nowFunc() is a call of a nil function, which panics.

\* An iteration that reads the clock before it looks at the heap.
GCStepNilEager(st) ==
    [st |-> [st EXCEPT !.panicked = TRUE], done |-> TRUE]

\* One critical section of the GC loop when nowFunc is nil: the test of
\* s.Len() == 0 comes first, the call of nowFunc after it.
GCStepNil(st) ==
    IF HeapLen(st) = 0 THEN [st |-> st, done |-> TRUE]
    ELSE [st |-> [st EXCEPT !.panicked = TRUE], done |-> TRUE]

\* Get when nowFunc is nil: a key that is not in the index returns nil
\* before the clock is read.
GetPanicsNil(st, key) == st.index[key] # NoItem

\* err := m.store.GC(ctx) on the store without a time source.
SchedNilGC ==
    /\ pc = "gc"
    /\ Becomes(GCStepNil(Store).st)
    /\ gcErr' = Nil
    /\ gcCalls' = gcCalls + 1
    /\ gcFailed' = gcFailed
    /\ gcSinceStop' = IF stopper = "sending" THEN gcSinceStop + 1 ELSE gcSinceStop
    /\ pc' = "err"
    /\ lastOp' = Op("GC", "", Nil)
    /\ UNCHANGED <<stopper, tickC, sinkCalls, ticksRecv>>
    /\ UNCHANGED <<now, cleanups, lastSet>>
    /\ UNCHANGED otherVars

\* Set evaluates s.nowFunc().Add(lifetime) before heap.Push: the nil call
\* panics and nothing is stored.
NilSet(key) ==
    /\ panicked' = TRUE
    /\ lastOp' = Op("Set", key, "panic")
    /\ UNCHANGED <<now, heap, items, index, cleanups, lastSet>>
    /\ UNCHANGED schedVars
    /\ UNCHANGED otherVars

NilGet(key) ==
    /\ panicked' = GetPanicsNil(Store, key)
    /\ lastOp' = Op("Get", key, IF GetPanicsNil(Store, key) THEN "panic" ELSE Nil)
    /\ UNCHANGED <<now, heap, items, index, cleanups, lastSet>>
    /\ UNCHANGED schedVars
    /\ UNCHANGED otherVars

\* A panic ends the process: nothing runs after it.
NilNext ==
    \/ ~panicked /\ SchedStart
    \/ ~panicked /\ SchedNilGC
    \/ ~panicked /\ SchedErr
    \/ ~panicked /\ SchedStop
    \/ ~panicked /\ SchedTick
    \/ ~panicked /\ TickerFire
    \/ ~panicked /\ StopSend
    \/ ~panicked /\ \E k \in Keys : NilSet(k)
    \/ ~panicked /\ \E k \in Keys : NilGet(k)
    \/ ~panicked /\ \E k \in Keys : Delete(k)
    \/ ~panicked /\ Flush

NilSpec == Init /\ [][NilNext]_vars

\* C34: on a store built without a time source the scheduler's GC finds the
\* heap empty and returns nil without calling nowFunc: the only call that
\* panics is a Set, the heap stays empty, GC reports no error and errFunc
\* is never called.
C34_EmptyGCNeedsNoClock ==
    /\ panicked => lastOp.op = "Set"
    /\ HeapLen(Store) = 0
    /\ gcErr = Nil
    /\ sinkCalls = 0

\* The scheduler has run GC three times on the store without a time source
\* and has then taken the stop signal; no Set was called and nothing
\* panicked.
C34_Witness ==
    /\ gcCalls = 3
    /\ pc = "done"
    /\ stopper = "sent"
    /\ ~panicked

(* ------------------- the cleanup of Get against a later Set ------------ *)
\* C35: the cleanup goroutine of a Get that found its key expired leaves an
\* entry that has not expired in place: when it runs after a later Set of the
\* key, a Get at that instant still returns the value that Set stored.
C35_CleanupSparesLive ==
    [][\A k \in Keys :
          (/\ lastOp' = Op("cleanup", k, Nil)
           /\ index[k] # NoItem
           /\ ~Expired(items[index[k]], now))
            => GetValue(StoreNext, k, now') = items[index[k]].value]_vars

(* ------------------- two GC calls at once ------------------------------ *)
\* The scheduler's GC and a caller's GC run on one store. Entries are set and
\* the clock moves only while no GC is under way, and no context is done.
NoCallUnderWay == \A t \in Callers : task[t].pc = "idle"

RaceNext ==
    \/ \E k \in Keys, l \in Lifetimes :
          NoCallUnderWay /\ HeapLen(Store) < MaxPairLen /\ Set(k, "v1", l)
    \/ NoCallUnderWay /\ Advance
    \/ \E t \in Callers : Call(t, "GC", "")
    \/ \E t \in Callers : Lock(t)
    \/ \E t \in Callers : OrderEnter(t)
    \/ \E t \in Callers : Unlock(t)

\* A goroutine that can run does run, and sync.Mutex hands the lock to a
\* goroutine that has waited for long. Nothing obliges a goroutine to call
\* GC, to set an entry, or the clock to move.
RaceSpec ==
    /\ Init /\ [][RaceNext]_vars
    /\ \A t \in Callers :
          /\ SF_vars(Lock(t))
          /\ WF_vars(OrderEnter(t))
          /\ WF_vars(Unlock(t))

\* What a slot of the heap holds.
Content(st, p) ==
    [key |-> st.items[st.heap[p]].key, value |-> st.items[st.heap[p]].value,
     expiredAt |-> st.items[st.heap[p]].expiredAt]

\* The slots of the heap that hold c.
SlotsOf(st, c) == {p \in 1..Len(st.heap) : Content(st, p) = c}

Contents(st) == {Content(st, p) : p \in 1..Len(st.heap)}

\* C36: with two GC calls on one store, at most one goroutine is between
\* Lock and Unlock and nothing panics; an iteration of either call removes
\* nothing, or one slot that has expired, and keeps every other slot; a call
\* that returns leaves no expired slot; and every call returns.
C36_ConcurrentGCSafe ==
    /\ [](/\ ~panicked
          /\ Cardinality({t \in Callers : task[t].pc \in {"drain", "writing"}}) <= 1)
    /\ [][\A t \in Callers :
            (task[t].op = "GC" /\ task[t].pc = "drain" /\ task'[t].pc = "writing") =>
               /\ task'[t].ret = "done" => StoreNext = Store
               /\ task'[t].ret = "more" =>
                    /\ HeapLen(StoreNext) = HeapLen(Store) - 1
                    /\ \E c \in Contents(Store) :
                          /\ c.expiredAt <= now
                          /\ Cardinality(SlotsOf(StoreNext, c)) =
                               Cardinality(SlotsOf(Store, c)) - 1
                          /\ \A d \in Contents(Store) \ {c} :
                                Cardinality(SlotsOf(StoreNext, d)) =
                                  Cardinality(SlotsOf(Store, d))]_vars
    /\ [][\A t \in Callers :
            (task[t].op = "GC" /\ task[t].pc = "writing" /\ task'[t].pc = "idle") =>
               ExpiredSlots(StoreNext, now') = {}]_vars
    /\ \A t \in Callers : (task[t].op = "GC") ~> (task[t].pc = "idle")

\* Both goroutines are in GC, each has removed one of the two expired slots,
\* and the heap is now empty.
C36_Witness ==
    /\ task[1].op = "GC" /\ task[1].pc = "writing" /\ task[1].ret = "more"
    /\ task[2].op = "GC" /\ task[2].pc = "lock"
    /\ gcLast[1] # NoRemoval
    /\ gcLast[2] # NoRemoval
    /\ HeapLen(Store) = 0

(* ------------------- the index and the heap ---------------------------- *)
IndexNext ==
    \/ \E k \in Keys, l \in Lifetimes : Set(k, "v1", l)
    \/ \E k \in Keys : Get(k)
    \/ \E k \in Keys : Delete(k)
    \/ \E k \in Keys : Cleanup(k)
    \/ Flush
    \/ GC
    \/ Advance

IndexSpec == Init /\ [][IndexNext]_vars

\* Every item the index holds is in the heap, in the slot its index field
\* names, and is an item of its key.
IndexInHeap(st) ==
    \A k \in Keys :
       st.index[k] # NoItem =>
         /\ \E p \in 1..Len(st.heap) :
               st.heap[p] = st.index[k] /\ st.items[st.index[k]].index = p - 1
         /\ st.items[st.index[k]].key = k

\* C37: in every reachable state, and in what Set, Delete (called by a
\* goroutine or by the cleanup of Get), Flush and GC make of it, every item
\* of the index is in the heap at the slot its index field names and has the
\* key it is indexed under; a Get that returned a value read it from such
\* an item.
C37_IndexedItemInHeap ==
    /\ IndexInHeap(Store)
    /\ \A k \in Keys, l \in Lifetimes :
          HeapLen(Store) < MaxLen => IndexInHeap(SetStore(Store, k, "v1", l, now))
    /\ \A k \in Keys : IndexInHeap(DeleteStore(Store, k))
    /\ IndexInHeap(FlushStore(Store))
    /\ \A b \in 0..(HeapLen(Store) + 1) : IndexInHeap(GCStore(Store, now, b))
    /\ \A k \in Keys :
          (lastOp.op = "Get" /\ lastOp.key = k /\ lastOp.ret # Nil) =>
             /\ index[k] # NoItem
             /\ items[index[k]].value = lastOp.ret
             /\ \E p \in 1..Len(heap) : heap[p] = index[k]

\* The cleanup of a Get has removed the item that a Set after that Get
\* stored: the key has left the index and its item the heap, and the other
\* key is still indexed.
C37_Witness ==
    /\ \E k \in Keys :
          /\ lastOp = Op("cleanup", k, Nil)
          /\ lastSet[k] # NoSet
          /\ index[k] = NoItem
          /\ \A p \in 1..Len(heap) : items[heap[p]].key # k
    /\ \E k \in Keys : index[k] # NoItem

(* ------------------- lifetimes that are not positive ------------------- *)
\* time.Duration is signed: the lifetimes of a Set that are zero or negative.
PastLifetimes == {-1, 0}

\* The value the calls of Set with such a lifetime store.
PastValue == "v2"

PastNext ==
    \/ \E k \in Keys, l \in PastLifetimes :
          HeapLen(Store) < MaxPairLen /\ Set(k, PastValue, l)
    \/ \E k \in Keys, l \in Lifetimes :
          HeapLen(Store) < MaxPairLen /\ Set(k, "v1", l)
    \/ \E k \in Keys : Get(k)
    \/ \E k \in Keys : Cleanup(k)
    \/ GC
    \/ Advance

PastSpec == Init /\ [][PastNext]_vars

\* C38: a Set returns nil and leaves in the index an item with the value and
\* the expiry now + lifetime it was given, also when the lifetime is zero or
\* negative; no Get returns the value of a Set with such a lifetime; and
\* after a GC that ran to its end no slot holds such a value.
C38_PastLifetime ==
    /\ lastOp.op = "Set" =>
          /\ lastOp.ret = Nil
          /\ ~panicked
          /\ index[lastOp.key] # NoItem
          /\ lastSet[lastOp.key] =
               <<items[index[lastOp.key]].value, items[index[lastOp.key]].expiredAt>>
    /\ lastOp.op = "Get" => lastOp.ret # PastValue
    /\ lastOp = Op("GC", "", Nil) =>
          \A p \in 1..Len(heap) : items[heap[p]].value # PastValue

\* A Get has just returned nil for a key whose item was stored by a Set with
\* a lifetime that is not positive, and has spawned the cleanup.
C38_Witness ==
    \E k \in Keys :
       /\ lastOp = Op("Get", k, Nil)
       /\ index[k] # NoItem
       /\ items[index[k]].value = PastValue
       /\ cleanups[k] = 1

(* ------------------- a second stop signal ------------------------------ *)
\* The owner of the channel, whose first send was taken, executes
\* stop <- struct{}{} once more.
StopSendAgain ==
    /\ stopper = "sent"
    /\ stopper' = "resending"
    /\ UNCHANGED <<pc, tickC, gcErr, gcCalls, gcFailed, sinkCalls, ticksRecv,
                   gcSinceStop>>
    /\ UNCHANGED storeVars
    /\ UNCHANGED otherVars

StopTwiceNext ==
    \/ SchedStart
    \/ \E e \in {Nil, ErrGC} : SchedGC(e)
    \/ SchedErr
    \/ SchedStop
    \/ SchedTick
    \/ TickerFire
    \/ StopSend
    \/ StopSendAgain

StopTwiceSpec == Init /\ [][StopTwiceNext]_vars

\* C39: a second send on the stop channel finds the loop gone, is never
\* taken, and stays blocked in every later state; no GC is called and
\* errFunc is not called while it waits.
C39_SecondStopBlocks ==
    /\ [](stopper = "resending" => pc = "done")
    /\ [](stopper # "resent")
    /\ [][stopper = "resending" =>
            /\ stopper' = "resending"
            /\ pc' = pc
            /\ gcCalls' = gcCalls
            /\ sinkCalls' = sinkCalls]_vars

\* The loop has run GC twice, taken the first stop signal and returned; the
\* second send is waiting.
C39_Witness ==
    /\ stopper = "resending"
    /\ pc = "done"
    /\ gcCalls = 2

====
